---- MODULE Spec2Model ----
(***************************************************************************)
(* A model of the omnibioai model registry engine: the path layout, the    *)
(* local filesystem backend, the sha256 manifest, the package validator,   *)
(* the promotion audit log and the ModelRegistry operations register,      *)
(* resolve, promote and verify.                                            *)
(*                                                                         *)
(* The registry root is a tree: `dirs` is the set of directories below the *)
(* root and `files` maps every regular file below the root to its content. *)
(* A path is a tuple of path components relative to the root.              *)
(***************************************************************************)
EXTENDS Integers, Sequences, FiniteSets, TLC

VARIABLES
    dirs,        \* the directories that exist under the registry root
    files,       \* file path -> content, for the files under the root
    clock,       \* the wall clock read by now_utc_iso
    last,        \* the last call made on the engine and how it ended
    registered,  \* history: version dir -> its files when register first returned ok
    promoted,    \* history: model root -> the promotions that returned ok
    tampered,    \* history: number of out-of-band writes made so far
    procs        \* caller -> where it is in its call, for callers that interleave

vars == <<dirs, files, clock, last, registered, promoted, tampered, procs>>

-----------------------------------------------------------------------------
(* Bounds of the model. *)

MaxClock == 3     \* the clock is read at most this many times
MaxTamper == 1    \* out-of-band writes made in one behaviour

-----------------------------------------------------------------------------
(* Python values. *)

None == "<None>"

Truthy(x) == x # None /\ x # ""

\* `a`, whatever it is.
Or_left(a, b) == a

\* `a or b`
Or(a, b) == IF Truthy(a) THEN a ELSE b

\* A dict is kept as its items in insertion order: a sequence of <<key, value>>.
EmptyDict == << >>

DictKeys(d) == { d[i][1] : i \in 1..Len(d) }

DictHas(d, k) == k \in DictKeys(d)

\* d[k] = v
DictSet(d, k, v) ==
    IF DictHas(d, k)
    THEN [i \in 1..Len(d) |-> IF d[i][1] = k THEN <<k, v>> ELSE d[i]]
    ELSE Append(d, <<k, v>>)

\* d.setdefault(k, v)
DictSetDefault(d, k, v) == IF DictHas(d, k) THEN d ELSE Append(d, <<k, v>>)

\* File contents.  Opaque bytes, a JSON document, the lines of a text file.
Bytes(b) == <<"bytes", b>>
JsonText(v) == <<"json", v>>      \* json.dumps(v)
JsonLoads(text) == text[2]        \* json.loads(text)
Lines(ls) == <<"lines", ls>>      \* a text file, as the sequence of its lines
ReadLines(text) == text[2]        \* read_text().splitlines()

-----------------------------------------------------------------------------
(* errors.py: the result of a call is ok or names the exception raised. *)

\* kind: "ok" or the exception class; msg: which message of that class;
\* names: the file names the message carries; path, hashes: what ok returns.
Ok == [kind |-> "ok", msg |-> "", names |-> << >>, path |-> << >>, hashes |-> EmptyDict]

Raise(kind, msg, names) ==
    [kind |-> kind, msg |-> msg, names |-> names, path |-> << >>, hashes |-> EmptyDict]

-----------------------------------------------------------------------------
(* package/layout.py *)

REQUIRED_FILES ==
    << "model.pt", "model_genes.txt", "label_map.json", "model_meta.json",
       "metrics.json", "feature_schema.json", "sha256sums.txt" >>

HASHED_FILES ==
    << "model.pt", "model_genes.txt", "label_map.json", "model_meta.json",
       "metrics.json", "feature_schema.json" >>

task_root(task) == << "tasks", task >>

model_root(task, model_name) == task_root(task) \o << "models", model_name >>

versions_root(task, model_name) == model_root(task, model_name) \o << "versions" >>

version_dir(task, model_name, version) == versions_root(task, model_name) \o << version >>

aliases_root(task, model_name) == model_root(task, model_name) \o << "aliases" >>

alias_path(task, model_name, alias) == aliases_root(task, model_name) \o << alias \o ".json" >>

audit_root(task, model_name) == model_root(task, model_name) \o << "audit" >>

promotions_log_path(task, model_name) == audit_root(task, model_name) \o << "promotions.jsonl" >>

-----------------------------------------------------------------------------
(* storage/localfs.py.  A filesystem value is [dirs, files, clock].        *)

Parent(path) == SubSeq(path, 1, Len(path) - 1)

\* path / name
Child(path, name) == Append(path, name)

PathExists(fs, path) == path \in fs.dirs \/ path \in DOMAIN fs.files

\* Path.mkdir(parents=True, exist_ok=True)
ensure_dirs(fs, path) ==
    [fs EXCEPT !.dirs = @ \cup { SubSeq(path, 1, n) : n \in 1..Len(path) }]

\* A backend whose existence probe never finds anything.
exists_never(fs, path) == FALSE

exists(fs, path) == PathExists(fs, path)

\* The files directly inside directory `path`, by name.
Listing(fs, path) ==
    { p[Len(p)] : p \in { q \in DOMAIN fs.files : Parent(q) = path } }

WriteFile(fs, path, text) ==
    [fs EXCEPT !.files = [p \in (DOMAIN @) \cup {path} |-> IF p = path THEN text ELSE @[p]]]

\* shutil.copytree with dirs_exist_ok=True: a directory that is there is
\* taken as it is.
copytree_makedirs_exist_ok(fs, dst_dir) == [fs |-> ensure_dirs(fs, dst_dir), err |-> Ok]

\* The first thing shutil.copytree(src_dir, dst_dir) does: os.makedirs(dst_dir),
\* which raises FileExistsError when dst_dir is there.
copytree_makedirs(fs, dst_dir) ==
    IF PathExists(fs, dst_dir)
    THEN [fs |-> fs, err |-> Raise("FileExistsError", "destination exists", << >>)]
    ELSE [fs |-> ensure_dirs(fs, dst_dir), err |-> Ok]

\* What shutil.copytree does for one entry of the source: the file is copied.
\* The source is a directory outside the registry, [exists, files: name -> content].
copy_file(fs, src_dir, dst_dir, name) == WriteFile(fs, Child(dst_dir, name), src_dir.files[name])

\* shutil.copytree(src_dir, dst_dir): dst_dir must not exist.
copy_tree(fs, src_dir, dst_dir) ==
    LET made == copytree_makedirs(fs, dst_dir)
        new == { Child(dst_dir, n) : n \in DOMAIN src_dir.files }
    IN  IF made.err.kind # "ok" THEN made
        ELSE [fs |-> [made.fs EXCEPT !.files =
                        [p \in (DOMAIN @) \cup new |->
                            IF p \in new THEN src_dir.files[p[Len(p)]] ELSE @[p]]],
              err |-> Ok]

\* The content of a file just created, and of a file whose write stopped
\* before all of text was written.
EmptyFile == << "partial", << >> >>
Partial(text) == << "partial", text >>

\* tempfile.mkstemp(prefix=path.name + ".", dir=path.parent): the name of a
\* sibling of path that does not exist, and its creation as an empty file.
\* The random part of the name is made of the caller (who) and a number, so
\* that no two callers are given the same name.
mkstemp_name(fs, path, who) ==
    LET name(n) == path[Len(path)] \o "." \o who \o ToString(n)
        fresh(n) == ~PathExists(fs, Child(Parent(path), name(n)))
    IN  Child(Parent(path), name(CHOOSE n \in 0..Cardinality(DOMAIN fs.files) :
                                    fresh(n) /\ \A k \in 0..(n - 1) : ~fresh(k)))

mkstemp(fs, path, who) == WriteFile(fs, mkstemp_name(fs, path, who), EmptyFile)

\* os.rename semantics of some platforms: a target that is there is kept.
os_replace_keep_existing(fs, tmp, path) ==
    IF path \in DOMAIN fs.files
    THEN fs
    ELSE [fs EXCEPT !.files = [p \in ((DOMAIN @) \ { tmp }) \cup { path } |->
                                  IF p = path THEN @[tmp] ELSE @[p]]]

\* os.replace(tmp, path): path now names the file tmp named.
os_replace(fs, tmp, path) ==
    [fs EXCEPT !.files = [p \in ((DOMAIN @) \ { tmp }) \cup { path } |->
                             IF p = path THEN @[tmp] ELSE @[p]]]

\* The cleanup without the removal.
unlink_tmp_skipped(fs, tmp) == fs

\* finally: if os.path.exists(tmp): os.unlink(tmp)
unlink_tmp(fs, tmp) ==
    [fs EXCEPT !.files = [p \in (DOMAIN @) \ { tmp } |-> @[p]]]

\* The call when no step of it fails: mkdir of the parent, mkstemp, write,
\* os.replace, cleanup.
atomic_write_text(fs, path, text) ==
    LET made == ensure_dirs(fs, Parent(path))
        tmp == mkstemp_name(made, path, "")
        written == WriteFile(mkstemp(made, path, ""), tmp, text)
    IN  unlink_tmp(os_replace(written, tmp, path), tmp)

-----------------------------------------------------------------------------
(* audit/audit_log.py *)

\* datetime.now(timezone.utc).isoformat(): the reading of the clock, as text.
now_utc_iso(fs) == ToString(fs.clock)

\* Time passes: the next reading of the clock is a later one.
Tick(fs) == [fs EXCEPT !.clock = @ + 1]

\* The event made without the reason of the call.
PromotionEvent_no_reason(task, model_name, alias, version, actor, reason, ts_utc) ==
    [task |-> task, model_name |-> model_name, alias |-> alias, version |-> version,
     actor |-> actor, reason |-> None, ts_utc |-> ts_utc]

PromotionEvent(task, model_name, alias, version, actor, reason, ts_utc) ==
    [task |-> task, model_name |-> model_name, alias |-> alias, version |-> version,
     actor |-> actor, reason |-> reason, ts_utc |-> ts_utc]

\* The log opened with "w" instead of "a": the event replaces the log.
append_promotion_event_truncate(fs, log_path, event) ==
    WriteFile(ensure_dirs(fs, Parent(log_path)), log_path, Lines(<< JsonText(event) >>))

\* The event written at the place of the last line of the log, not after it.
append_promotion_event_over_last(fs, log_path, event) ==
    LET made == ensure_dirs(fs, Parent(log_path))
        old == IF log_path \in DOMAIN made.files THEN ReadLines(made.files[log_path]) ELSE << >>
    IN  WriteFile(made, log_path,
                  Lines(Append(SubSeq(old, 1, Len(old) - 1), JsonText(event))))

\* open(log_path, "a").write(json.dumps(event.__dict__) + "\n")
append_promotion_event(fs, log_path, event) ==
    LET made == ensure_dirs(fs, Parent(log_path))
        old == IF log_path \in DOMAIN made.files THEN ReadLines(made.files[log_path]) ELSE << >>
    IN  WriteFile(made, log_path, Lines(Append(old, JsonText(event))))

-----------------------------------------------------------------------------
(* package/manifest.py *)

\* The digest of a file: a function of its bytes, distinct for distinct bytes.
sha256_file(fs, path) == <<"sha256", fs.files[path]>>

\* The loop of write_sha256_manifest over the first n names of include_files:
\* the hashes dict and the manifest lines built so far.
RECURSIVE ManifestLoop(_, _, _, _, _)
ManifestLoop(fs, dir_path, manifest_name, include_files, n) ==
    IF n = 0 THEN [hashes |-> EmptyDict, lines |-> << >>]
    ELSE LET acc == ManifestLoop(fs, dir_path, manifest_name, include_files, n - 1)
             name == include_files[n]
             p == Child(dir_path, name)
         IN  IF name = manifest_name THEN acc
             ELSE IF ~PathExists(fs, p) THEN acc
             ELSE [hashes |-> DictSet(acc.hashes, name, sha256_file(fs, p)),
                   lines |-> Append(acc.lines, << sha256_file(fs, p), name >>)]

\* The manifest written without leaving out the manifest's own name.
write_sha256_manifest_self(fs, dir_path, manifest_path, include_files) ==
    LET r == ManifestLoop(fs, dir_path, "", include_files, Len(include_files))
    IN  [fs |-> WriteFile(fs, manifest_path, Lines(r.lines)), hashes |-> r.hashes]

\* The manifest written with its lines in the reverse of the list order.
write_sha256_manifest_reversed(fs, dir_path, manifest_path, include_files) ==
    LET r == ManifestLoop(fs, dir_path, manifest_path[Len(manifest_path)],
                          include_files, Len(include_files))
        n == Len(r.lines)
    IN  [fs |-> WriteFile(fs, manifest_path, Lines([i \in 1..n |-> r.lines[n + 1 - i]])),
         hashes |-> r.hashes]

write_sha256_manifest(fs, dir_path, manifest_path, include_files) ==
    LET r == ManifestLoop(fs, dir_path, manifest_path[Len(manifest_path)],
                          include_files, Len(include_files))
    IN  [fs |-> WriteFile(fs, manifest_path, Lines(r.lines)), hashes |-> r.hashes]

\* The loop of read_sha256_manifest over the first n lines.  A line is the
\* sequence of its whitespace-separated parts; a blank line has none.
RECURSIVE ReadLoop(_, _)
ReadLoop(lines, n) ==
    IF n = 0 THEN EmptyDict
    ELSE LET out == ReadLoop(lines, n - 1)
             parts == lines[n]
         IN  IF Len(parts) < 2 THEN out
             ELSE DictSet(out, parts[Len(parts)], parts[1])

read_sha256_manifest(fs, manifest_path) ==
    IF ~PathExists(fs, manifest_path)
    THEN [err |-> Raise("IntegrityError", "Missing manifest", << >>), out |-> EmptyDict]
    ELSE LET lines == ReadLines(fs.files[manifest_path])
         IN  [err |-> Ok, out |-> ReadLoop(lines, Len(lines))]

\* The check of one item without the comparison of the digests.
VerifyItem_exists_only(fs, dir_path, item) ==
    IF ~PathExists(fs, Child(dir_path, item[1]))
    THEN Raise("IntegrityError", "Manifest expects file missing", << item[1] >>)
    ELSE Ok

\* The check verify_sha256_manifest makes of one (name, exp_digest) item.
VerifyItem(fs, dir_path, item) ==
    LET p == Child(dir_path, item[1])
    IN  IF ~PathExists(fs, p)
        THEN Raise("IntegrityError", "Manifest expects file missing", << item[1] >>)
        ELSE IF sha256_file(fs, p) # item[2]
        THEN Raise("IntegrityError", "SHA256 mismatch", << item[1] >>)
        ELSE Ok

verify_sha256_manifest(fs, dir_path, manifest_path) ==
    LET r == read_sha256_manifest(fs, manifest_path)
        bad == { i \in 1..Len(r.out) : VerifyItem(fs, dir_path, r.out[i]).kind # "ok" }
    IN  IF r.err.kind # "ok" THEN r.err
        ELSE IF bad = {} THEN Ok
        ELSE VerifyItem(fs, dir_path, r.out[CHOOSE i \in bad : \A j \in bad : i <= j])

-----------------------------------------------------------------------------
(* package/validate.py *)

\* The validation that names the first missing file only.
validate_package_files_first_missing(fs, vdir) ==
    LET missing == SelectSeq(REQUIRED_FILES, LAMBDA f : ~PathExists(fs, Child(vdir, f)))
    IN  IF missing # << >>
        THEN Raise("ValidationError", "Model package missing required files", << missing[1] >>)
        ELSE Ok

validate_package_files(fs, vdir) ==
    LET missing == SelectSeq(REQUIRED_FILES, LAMBDA f : ~PathExists(fs, Child(vdir, f)))
    IN  IF missing # << >>
        THEN Raise("ValidationError", "Model package missing required files", missing)
        ELSE Ok

-----------------------------------------------------------------------------
(* refs.py.  A model_ref is the sequence of its pieces; "@" and the        *)
(* whitespace characters are pieces of their own.                          *)

RECURSIVE Join(_)
Join(pieces) == IF pieces = << >> THEN "" ELSE Head(pieces) \o Join(Tail(pieces))

\* The pieces that are whitespace.
Whitespace == { " ", "\t", "\n" }

\* A strip that takes nothing away.
Strip_nothing(pieces) == pieces

\* str.strip()
RECURSIVE Strip(_)
Strip(pieces) ==
    IF pieces = << >> THEN pieces
    ELSE IF Head(pieces) \in Whitespace THEN Strip(Tail(pieces))
    ELSE IF pieces[Len(pieces)] \in Whitespace THEN Strip(SubSeq(pieces, 1, Len(pieces) - 1))
    ELSE pieces

InvalidModelRef == Raise("InvalidModelRef", "Expected '<model_name>@<alias_or_version>'", << >>)

parse_model_ref(model_ref) ==
    IF model_ref = << >> \/ "@" \notin { model_ref[i] : i \in 1..Len(model_ref) }
    THEN [err |-> InvalidModelRef, model_name |-> "", selector |-> ""]
    ELSE LET at == CHOOSE i \in 1..Len(model_ref) :
                      model_ref[i] = "@" /\ \A j \in 1..(i - 1) : model_ref[j] # "@"
             model_name == Join(Strip(SubSeq(model_ref, 1, at - 1)))
             selector == Join(Strip(SubSeq(model_ref, at + 1, Len(model_ref))))
         IN  IF model_name = "" \/ selector = ""
             THEN [err |-> InvalidModelRef, model_name |-> "", selector |-> ""]
             ELSE [err |-> Ok, model_name |-> model_name, selector |-> selector]

-----------------------------------------------------------------------------
(* api.py: ModelRegistry.  Every operation takes the filesystem and gives   *)
(* the filesystem it leaves and its result.                                 *)

_ensure_model_dirs(fs, task, model_name) ==
    ensure_dirs(ensure_dirs(ensure_dirs(fs, versions_root(task, model_name)),
                            aliases_root(task, model_name)),
                audit_root(task, model_name))

\* The writes of promote_model: the alias document, then the audit event.
write_promotion(fs, task, model_name, alias, version, actor, reason) ==
    LET payload == [task |-> task, model_name |-> model_name, alias |-> alias,
                    version |-> version, updated_at |-> now_utc_iso(fs),
                    actor |-> actor, reason |-> reason]
        fs2 == atomic_write_text(Tick(fs), alias_path(task, model_name, alias),
                                 JsonText(payload))
        ev == PromotionEvent(task, model_name, alias, version, actor, reason,
                             payload.updated_at)
    IN  append_promotion_event(fs2, promotions_log_path(task, model_name), ev)

\* promote_model without the check that the version exists.
promote_model_unchecked(fs, task, model_name, alias, version, actor, reason) ==
    [fs |-> write_promotion(_ensure_model_dirs(fs, task, model_name), task, model_name,
                            alias, version, actor, reason),
     res |-> Ok]

\* promote_model making the check after its writes.
promote_model_write_first(fs, task, model_name, alias, version, actor, reason) ==
    LET fs1 == _ensure_model_dirs(fs, task, model_name)
        fs2 == write_promotion(fs1, task, model_name, alias, version, actor, reason)
    IN  IF ~PathExists(fs1, version_dir(task, model_name, version))
        THEN [fs |-> fs2, res |-> Raise("ModelNotFound", "Cannot promote missing version", << >>)]
        ELSE [fs |-> fs2, res |-> Ok]

\* promote_model refusing a version whose required files are not all there.
promote_model_validating(fs, task, model_name, alias, version, actor, reason) ==
    LET fs1 == _ensure_model_dirs(fs, task, model_name)
        vdir == version_dir(task, model_name, version)
    IN  IF ~PathExists(fs1, vdir)
        THEN [fs |-> fs1, res |-> Raise("ModelNotFound", "Cannot promote missing version", << >>)]
        ELSE IF validate_package_files(fs1, vdir).kind # "ok"
        THEN [fs |-> fs1, res |-> validate_package_files(fs1, vdir)]
        ELSE [fs |-> write_promotion(fs1, task, model_name, alias, version, actor, reason),
              res |-> Ok]

promote_model(fs, task, model_name, alias, version, actor, reason) ==
    LET fs1 == _ensure_model_dirs(fs, task, model_name)
        vdir == version_dir(task, model_name, version)
    IN  IF ~PathExists(fs1, vdir)
        THEN [fs |-> fs1, res |-> Raise("ModelNotFound", "Cannot promote missing version", << >>)]
        ELSE [fs |-> write_promotion(fs1, task, model_name, alias, version, actor, reason),
              res |-> Ok]

\* The version directory is there, and register writes into it before it raises.
version_already_exists_dirty(fs, dst, artifacts_dir) ==
    [fs |-> [fs EXCEPT !.files =
               [p \in DOMAIN @ |->
                  IF Parent(p) = dst /\ p[Len(p)] \in DOMAIN artifacts_dir.files
                  THEN artifacts_dir.files[p[Len(p)]] ELSE @[p]]],
     res |-> Raise("VersionAlreadyExists", "Model version already exists", << >>)]

\* The version directory is there, and register copies over it.
version_already_exists_overwrite(fs, dst, artifacts_dir) ==
    [fs |-> [fs EXCEPT !.files =
               [p \in DOMAIN @ |->
                  IF Parent(p) = dst /\ p[Len(p)] \in DOMAIN artifacts_dir.files
                  THEN artifacts_dir.files[p[Len(p)]] ELSE @[p]]],
     res |-> [Ok EXCEPT !.path = dst]]

\* What register_model does when the version directory is there: it raises.
version_already_exists(fs, dst, artifacts_dir) ==
    [fs |-> fs, res |-> Raise("VersionAlreadyExists", "Model version already exists", << >>)]

\* The required files are not all there, and register removes the version
\* directory before it raises.
validation_failed_rollback(fs, dst, valid) ==
    [fs |-> [fs EXCEPT !.dirs = @ \ { dst },
                       !.files = [q \in { x \in DOMAIN @ : Parent(x) # dst } |-> @[q]]],
     res |-> valid]

\* What register_model does when validate_package_files raises: the error
\* goes to the caller, the version directory stays.
validation_failed(fs, dst, valid) == [fs |-> fs, res |-> valid]

\* The artifacts directory is missing, and register makes the model's
\* directories before it looks for it.
artifacts_dir_missing_dirs_made(fs, task, model_name) ==
    [fs |-> _ensure_model_dirs(fs, task, model_name),
     res |-> Raise("ValidationError", "artifacts_dir does not exist", << >>)]

\* What register_model does when artifacts_dir does not exist: it raises.
artifacts_dir_missing(fs, task, model_name) ==
    [fs |-> fs, res |-> Raise("ValidationError", "artifacts_dir does not exist", << >>)]

\* The merge with the engine's values put over the caller's.
merge_metadata_override(metadata, task, model_name, version, created_at) ==
    [meta |-> DictSet(DictSet(DictSet(DictSet(metadata, "task", task),
                  "model_name", model_name), "version", version), "created_at", created_at),
     metadata |-> metadata]

\* The merge made in the caller's dict itself, not in a copy of it.
merge_metadata_in_place(metadata, task, model_name, version, created_at) ==
    [meta |-> DictSetDefault(DictSetDefault(DictSetDefault(DictSetDefault(
                  metadata, "task", task), "model_name", model_name),
                  "version", version), "created_at", created_at),
     metadata |-> DictSetDefault(DictSetDefault(DictSetDefault(DictSetDefault(
                  metadata, "task", task), "model_name", model_name),
                  "version", version), "created_at", created_at)]

\* meta = dict(metadata) and the four meta.setdefault: the dict that is
\* written (meta) and the caller's dict as the lines leave it (metadata).
merge_metadata(metadata, task, model_name, version, created_at) ==
    [meta |-> DictSetDefault(DictSetDefault(DictSetDefault(DictSetDefault(
                  metadata, "task", task), "model_name", model_name),
                  "version", version), "created_at", created_at),
     metadata |-> metadata]

\* artifacts_dir: a directory outside the registry, [exists, files];
\* metadata: a dict; set_alias, actor, reason: a string or None.
\* The result: the filesystem, what the call returns or raises, and the
\* caller's metadata dict after the call.
register_model(fs, task, model_name, version, artifacts_dir, metadata, set_alias, actor, reason) ==
    LET fs1 == _ensure_model_dirs(fs, task, model_name)
        dst == version_dir(task, model_name, version)
        copied == copy_tree(fs1, artifacts_dir, dst)
        merged == merge_metadata(metadata, task, model_name, version, now_utc_iso(copied.fs))
        meta == merged.meta
        fs2 == atomic_write_text(Tick(copied.fs), Child(dst, "model_meta.json"),
                                 JsonText(meta))
        valid == validate_package_files(fs2, dst)
        written == write_sha256_manifest(fs2, dst, Child(dst, "sha256sums.txt"), REQUIRED_FILES)
        promo == IF Truthy(set_alias)
                 THEN promote_model(written.fs, task, model_name, set_alias, version,
                                    actor, Or(reason, "register_model"))
                 ELSE [fs |-> written.fs, res |-> Ok]
        out == IF ~artifacts_dir.exists
               THEN artifacts_dir_missing(fs, task, model_name)
               ELSE IF exists(fs1, dst) THEN version_already_exists(fs1, dst, artifacts_dir)
               ELSE IF copied.err.kind # "ok" THEN [fs |-> copied.fs, res |-> copied.err]
               ELSE IF valid.kind # "ok" THEN validation_failed(fs2, dst, valid)
               ELSE IF promo.res.kind # "ok" THEN promo
               ELSE [fs |-> promo.fs,
                     res |-> [Ok EXCEPT !.path = dst, !.hashes = written.hashes]]
    IN  [fs |-> out.fs, res |-> out.res,
         metadata |-> IF ~artifacts_dir.exists \/ exists(fs1, dst) \/ copied.err.kind # "ok"
                      THEN metadata
                      ELSE merged.metadata]

\* model_ref: the sequence of the pieces of "<model_name>@<alias_or_version>";
\* strict_verify: cfg.strict_verify.
\* resolve_model without the alias lookup: the selector is always a version.
resolve_model_no_alias(fs, task, model_ref, verify, strict_verify) ==
    LET ref == parse_model_ref(model_ref)
        fs1 == _ensure_model_dirs(fs, task, ref.model_name)
        vdir == version_dir(task, ref.model_name, ref.selector)
        valid == validate_package_files(fs1, vdir)
        verified == verify_sha256_manifest(fs1, vdir, Child(vdir, "sha256sums.txt"))
    IN  IF ref.err.kind # "ok" THEN [fs |-> fs, res |-> ref.err]
        ELSE IF ~PathExists(fs1, vdir)
        THEN [fs |-> fs1, res |-> Raise("ModelNotFound", "Model not found", << >>)]
        ELSE IF (verify \/ strict_verify) /\ valid.kind # "ok" THEN [fs |-> fs1, res |-> valid]
        ELSE IF (verify \/ strict_verify) /\ verified.kind # "ok" THEN [fs |-> fs1, res |-> verified]
        ELSE [fs |-> fs1, res |-> [Ok EXCEPT !.path = vdir]]

\* resolve_model trusting an alias document: the version it names is not
\* looked for.
resolve_model_stale_alias(fs, task, model_ref, verify, strict_verify) ==
    LET ref == parse_model_ref(model_ref)
        fs1 == _ensure_model_dirs(fs, task, ref.model_name)
        alias_file == alias_path(task, ref.model_name, ref.selector)
        version == IF PathExists(fs1, alias_file)
                   THEN JsonLoads(fs1.files[alias_file]).version
                   ELSE ref.selector
        vdir == version_dir(task, ref.model_name, version)
        valid == validate_package_files(fs1, vdir)
        verified == verify_sha256_manifest(fs1, vdir, Child(vdir, "sha256sums.txt"))
    IN  IF ref.err.kind # "ok" THEN [fs |-> fs, res |-> ref.err]
        ELSE IF ~PathExists(fs1, alias_file) /\ ~PathExists(fs1, vdir)
        THEN [fs |-> fs1, res |-> Raise("ModelNotFound", "Model not found", << >>)]
        ELSE IF (verify \/ strict_verify) /\ valid.kind # "ok" THEN [fs |-> fs1, res |-> valid]
        ELSE IF (verify \/ strict_verify) /\ verified.kind # "ok" THEN [fs |-> fs1, res |-> verified]
        ELSE [fs |-> fs1, res |-> [Ok EXCEPT !.path = vdir]]

\* The version looked for with the literal version directory tried first.
selected_version_literal_first(fs, task, model_name, selector) ==
    IF PathExists(fs, version_dir(task, model_name, selector)) THEN selector
    ELSE IF PathExists(fs, alias_path(task, model_name, selector))
    THEN JsonLoads(fs.files[alias_path(task, model_name, selector)]).version
    ELSE selector

\* The version resolve_model looks for: the one the alias document named
\* by the selector holds when there is such a document, else the selector.
selected_version(fs, task, model_name, selector) ==
    IF PathExists(fs, alias_path(task, model_name, selector))
    THEN JsonLoads(fs.files[alias_path(task, model_name, selector)]).version
    ELSE selector

\* The condition with the configured flag left out.
verification_on_argument_only(verify, strict_verify) == verify

\* The condition of resolve_model on its two checks.
verification_on(verify, strict_verify) == verify \/ strict_verify

\* The two checks with the manifest verified before the required files.
package_checks_manifest_first(fs, vdir) ==
    LET valid == validate_package_files(fs, vdir)
        verified == verify_sha256_manifest(fs, vdir, Child(vdir, "sha256sums.txt"))
    IN  IF verified.kind # "ok" THEN verified ELSE valid

\* The two checks of resolve_model, in their order: what the first that
\* raises gives.
package_checks(fs, vdir) ==
    LET valid == validate_package_files(fs, vdir)
        verified == verify_sha256_manifest(fs, vdir, Child(vdir, "sha256sums.txt"))
    IN  IF valid.kind # "ok" THEN valid ELSE verified

resolve_model(fs, task, model_ref, verify, strict_verify) ==
    LET ref == parse_model_ref(model_ref)
        fs1 == _ensure_model_dirs(fs, task, ref.model_name)
        version == selected_version(fs1, task, ref.model_name, ref.selector)
        vdir == version_dir(task, ref.model_name, version)
        checked == package_checks(fs1, vdir)
    IN  IF ref.err.kind # "ok" THEN [fs |-> fs, res |-> ref.err]
        ELSE IF ~PathExists(fs1, vdir)
        THEN [fs |-> fs1, res |-> Raise("ModelNotFound", "Model not found", << >>)]
        ELSE IF verification_on(verify, strict_verify) /\ checked.kind # "ok"
        THEN [fs |-> fs1, res |-> checked]
        ELSE [fs |-> fs1, res |-> [Ok EXCEPT !.path = vdir]]

verify_model_ref(fs, task, model_ref, strict_verify) ==
    resolve_model(fs, task, model_ref, TRUE, strict_verify)

-----------------------------------------------------------------------------
(* The calls made on the engine: their arguments are drawn from these sets. *)

Tasks == { "t" }
Models == { "m" }
Versions == { "v1", "v2" }
AliasNames == { "latest", "v2" }
\* Who calls and why: the (actor, reason) pairs given to register and promote.
Callers == { << None, None >>, << "x", "y" >> }

\* A package directory: every required file but those of `missing`, the
\* opaque ones holding the bytes b, with the model_meta.json and the empty
\* sha256sums.txt its producer put there.
Package(b, missing) ==
    [exists |-> TRUE,
     files |-> [n \in { REQUIRED_FILES[i] : i \in 1..Len(REQUIRED_FILES) } \ missing |->
                  IF n = "model_meta.json" THEN JsonText(<< <<"framework", b>> >>)
                  ELSE IF n = "sha256sums.txt" THEN Lines(<< >>)
                  ELSE Bytes(b)]]

NoDirectory == [exists |-> FALSE, files |-> << >>]

Artifacts ==
    { NoDirectory, Package("a", {}), Package("b", {}), Package("a", {"sha256sums.txt"}) }

Metadatas == { << <<"framework", "sklearn">> >> }

ModelRefs == { << "m", "@", "v1" >>, << "m", "@", "v2" >>, << "m", "@", "latest" >> }

-----------------------------------------------------------------------------
(* The state machine. *)

FS == [dirs |-> dirs, files |-> files, clock |-> clock]

\* The files of directory `path` in fs: name -> content.
Snapshot(fs, path) == [n \in Listing(fs, path) |-> fs.files[Child(path, n)]]

LogOf(fs, task, model_name) ==
    IF promotions_log_path(task, model_name) \in DOMAIN fs.files
    THEN ReadLines(fs.files[promotions_log_path(task, model_name)])
    ELSE << >>

\* A bound of the model on the readings of the clock.
WithinBounds(fs, bound) == fs.clock <= bound

Commit(fs) ==
    /\ dirs' = fs.dirs
    /\ files' = fs.files
    /\ clock' = fs.clock

Extend(f, k, v) == [x \in (DOMAIN f) \cup {k} |-> IF x = k THEN v ELSE f[x]]

\* What the history keeps of a call that promoted: the arguments it was given.
Promotion(op, task, model_name, alias, version, actor, reason) ==
    [op |-> op, task |-> task, model_name |-> model_name, alias |-> alias,
     version |-> version, actor |-> actor, reason |-> reason]

NoCall == [op |-> "none", res |-> Ok]

\* The callers that are inside a call of the engine at the same time, and
\* what a caller that is inside no call holds.  A caller inside a call is at
\* pc, with the arguments of the call and its local variables: dst, the
\* entries copytree has still to copy (todo), the hashes of the manifest,
\* the arguments (wpath, wtext), the temporary file (tmp), the pending
\* exception (err) and the continuation (ret) of atomic_write_text.
\* History: existed (dst was there when the call began), copy (how the
\* call's copy_tree ended), unlinked (no os.unlink of the call failed) and
\* at (the step before which the process stopped).
Procs == { "A", "B" }

IdleProc ==
    [op |-> "none", pc |-> "idle", task |-> "", model_name |-> "", version |-> "",
     alias |-> None, actor |-> None, reason |-> None, artifacts_dir |-> NoDirectory,
     metadata |-> EmptyDict, dst |-> << >>, todo |-> {}, hashes |-> EmptyDict,
     wpath |-> << >>, wtext |-> EmptyFile, tmp |-> << >>, ret |-> "", err |-> Ok,
     res |-> Ok, existed |-> FALSE, copy |-> "none", unlinked |-> TRUE, at |-> ""]

Init ==
    /\ dirs = {}
    /\ files = << >>
    /\ clock = 0
    /\ last = NoCall
    /\ registered = << >>
    /\ promoted = [k \in { model_root(task, model_name) : task \in Tasks, model_name \in Models } |-> << >>]
    /\ tampered = 0
    /\ procs = [p \in Procs |-> IdleProc]

Register(versions, artifacts, metadatas, aliases, callers, bound) ==
    \E task \in Tasks, model_name \in Models, version \in versions,
       artifacts_dir \in artifacts, metadata \in metadatas, set_alias \in aliases,
       caller \in callers :
        LET actor == caller[1]
            reason == caller[2]
            r == register_model(FS, task, model_name, version, artifacts_dir, metadata,
                                set_alias, actor, reason)
            dst == version_dir(task, model_name, version)
        IN  /\ WithinBounds(r.fs, bound)
            /\ Commit(r.fs)
            /\ last' = [op |-> "register", path |-> dst, artifacts_dir |-> artifacts_dir,
                        metadata |-> metadata, metadata_after |-> r.metadata,
                        res |-> r.res]
            /\ registered' = IF r.res.kind = "ok" /\ dst \notin DOMAIN registered
                             THEN Extend(registered, dst, Snapshot(r.fs, dst))
                             ELSE registered
            /\ promoted' = IF r.res.kind = "ok" /\ Truthy(set_alias)
                           THEN [promoted EXCEPT ![model_root(task, model_name)] =
                                   Append(@, Promotion("register", task, model_name, set_alias,
                                                       version, actor, reason))]
                           ELSE promoted
            /\ UNCHANGED << tampered, procs >>

\* register_model, the history keeping the alias, actor and reason given.
RegisterAlias(versions, artifacts, metadatas, aliases, callers, bound) ==
    \E task \in Tasks, model_name \in Models, version \in versions,
       artifacts_dir \in artifacts, metadata \in metadatas, set_alias \in aliases,
       caller \in callers :
        LET actor == caller[1]
            reason == caller[2]
            r == register_model(FS, task, model_name, version, artifacts_dir, metadata,
                                set_alias, actor, reason)
            dst == version_dir(task, model_name, version)
        IN  /\ WithinBounds(r.fs, bound)
            /\ Commit(r.fs)
            /\ last' = [op |-> "register", path |-> dst, artifacts_dir |-> artifacts_dir,
                        metadata |-> metadata, metadata_after |-> r.metadata,
                        set_alias |-> set_alias, actor |-> actor, reason |-> reason,
                        res |-> r.res]
            /\ registered' = IF r.res.kind = "ok" /\ dst \notin DOMAIN registered
                             THEN Extend(registered, dst, Snapshot(r.fs, dst))
                             ELSE registered
            /\ promoted' = IF r.res.kind = "ok" /\ set_alias \notin { None, "" }
                           THEN [promoted EXCEPT ![model_root(task, model_name)] =
                                   Append(@, Promotion("register", task, model_name, set_alias,
                                                       version, actor, reason))]
                           ELSE promoted
            /\ UNCHANGED << tampered, procs >>

Promote(versions, aliases, callers, bound) ==
    \E task \in Tasks, model_name \in Models, alias \in aliases, version \in versions,
       caller \in callers :
        LET actor == caller[1]
            reason == caller[2]
            r == promote_model(FS, task, model_name, alias, version, actor, reason)
        IN  /\ WithinBounds(r.fs, bound)
            /\ Commit(r.fs)
            /\ last' = [op |-> "promote", path |-> version_dir(task, model_name, version),
                        res |-> r.res]
            /\ promoted' = IF r.res.kind = "ok"
                           THEN [promoted EXCEPT ![model_root(task, model_name)] =
                                   Append(@, Promotion("promote", task, model_name, alias,
                                                       version, actor, reason))]
                           ELSE promoted
            /\ UNCHANGED << registered, tampered, procs >>

Resolve(refs) ==
    \E task \in Tasks, model_ref \in refs, verify \in BOOLEAN, strict_verify \in BOOLEAN :
        LET r == resolve_model(FS, task, model_ref, verify, strict_verify)
        IN  /\ Commit(r.fs)
            /\ last' = [op |-> "resolve", task |-> task, model_ref |-> model_ref,
                        verify |-> verify \/ strict_verify, res |-> r.res]
            /\ UNCHANGED << registered, promoted, tampered, procs >>

\* resolve_model, the history keeping the two flags of the call apart.
ResolveFlags(refs) ==
    \E task \in Tasks, model_ref \in refs, verify \in BOOLEAN, strict_verify \in BOOLEAN :
        LET r == resolve_model(FS, task, model_ref, verify, strict_verify)
        IN  /\ Commit(r.fs)
            /\ last' = [op |-> "resolve", task |-> task, model_ref |-> model_ref,
                        verify |-> verify \/ strict_verify,
                        args |-> << verify, strict_verify >>, res |-> r.res]
            /\ UNCHANGED << registered, promoted, tampered, procs >>

Verify(refs) ==
    \E task \in Tasks, model_ref \in refs, strict_verify \in BOOLEAN :
        LET r == verify_model_ref(FS, task, model_ref, strict_verify)
        IN  /\ Commit(r.fs)
            /\ last' = [op |-> "verify", task |-> task, model_ref |-> model_ref,
                        res |-> r.res]
            /\ UNCHANGED << registered, promoted, tampered, procs >>

\* parse_model_ref called on its own.
Parse(refs) ==
    \E model_ref \in refs :
        /\ last' = [op |-> "parse", model_ref |-> model_ref,
                    res |-> parse_model_ref(model_ref).err,
                    model_name |-> parse_model_ref(model_ref).model_name,
                    selector |-> parse_model_ref(model_ref).selector]
        /\ UNCHANGED << dirs, files, clock, registered, promoted, tampered, procs >>

\* Out of band, not an operation of the engine: someone rewrites the bytes
\* of one hashed file of a version directory.
Tamper ==
    \E path \in DOMAIN files :
        /\ tampered < MaxTamper
        /\ Len(path) = 7 /\ path[5] = "versions"
        /\ path[7] \in { HASHED_FILES[i] : i \in 1..Len(HASHED_FILES) }
        /\ files[path] # Bytes("x")
        /\ files' = [files EXCEPT ![path] = Bytes("x")]
        /\ tampered' = tampered + 1
        /\ last' = [op |-> "tamper", path |-> path, res |-> Ok]
        /\ UNCHANGED << dirs, clock, registered, promoted, procs >>

\* Out of band, not an operation of the engine: someone removes a version
\* directory with the files in it.
RemoveVersion ==
    \E d \in dirs :
        /\ tampered < MaxTamper
        /\ Len(d) = 6 /\ d[5] = "versions"
        /\ dirs' = dirs \ { d }
        /\ files' = [p \in { q \in DOMAIN files : Parent(q) # d } |-> files[p]]
        /\ tampered' = tampered + 1
        /\ last' = [op |-> "remove", path |-> d, res |-> Ok]
        /\ UNCHANGED << clock, registered, promoted, procs >>

\* Out of band, not an operation of the engine: someone removes one file of
\* a version directory.
RemoveFile(bound) ==
    \E path \in DOMAIN files :
        /\ tampered < bound
        /\ Len(path) = 7 /\ path[5] = "versions"
        /\ path[7] \in { REQUIRED_FILES[i] : i \in 1..Len(REQUIRED_FILES) }
        /\ files' = [q \in (DOMAIN files) \ { path } |-> files[q]]
        /\ tampered' = tampered + 1
        /\ last' = [op |-> "remove_file", path |-> path, res |-> Ok]
        /\ UNCHANGED << dirs, clock, registered, promoted, procs >>

\* Out of band, not an operation of the engine: someone edits the manifest
\* of a version directory, taking one line away or leaving no line at all.
EditManifest(bound) ==
    \E path \in DOMAIN files :
        /\ tampered < bound
        /\ Len(path) = 7 /\ path[5] = "versions" /\ path[7] = "sha256sums.txt"
        /\ files[path][1] = "lines" /\ ReadLines(files[path]) # << >>
        /\ \E keep \in { {} } \cup { (1..Len(ReadLines(files[path]))) \ { i } :
                                        i \in 1..Len(ReadLines(files[path])) } :
               files' = [files EXCEPT ![path] =
                           Lines(SelectSeq(ReadLines(files[path]),
                                   LAMBDA l : \E i \in keep : ReadLines(files[path])[i] = l))]
        /\ tampered' = tampered + 1
        /\ last' = [op |-> "edit_manifest", path |-> path, res |-> Ok]
        /\ UNCHANGED << dirs, clock, registered, promoted, procs >>

\* validate_package_files called on its own, on a version directory.
Validate ==
    \E d \in dirs :
        /\ Len(d) = 6 /\ d[5] = "versions"
        /\ last' = [op |-> "validate", path |-> d, res |-> validate_package_files(FS, d)]
        /\ UNCHANGED << dirs, files, clock, registered, promoted, tampered, procs >>

\* write_sha256_manifest called on its own, on a version directory.
WriteManifest(includes) ==
    \E d \in dirs, include_files \in includes :
        LET r == write_sha256_manifest(FS, d, Child(d, "sha256sums.txt"), include_files)
        IN  /\ Len(d) = 6 /\ d[5] = "versions"
            /\ Commit(r.fs)
            /\ last' = [op |-> "write_manifest", path |-> d, include_files |-> include_files,
                        res |-> [Ok EXCEPT !.hashes = r.hashes]]
            /\ UNCHANGED << registered, promoted, tampered, procs >>

\* The engine called by several callers at once: a call is taken one step
\* at a time, a step being one access to the filesystem or to the clock.
Done(pr, res) == [pr EXCEPT !.pc = "done", !.res = res]

\* Caller p goes from procs[p] to pr, leaving the filesystem fs; the call
\* that ends and the promotion that is appended enter the history.
Advance(p, fs, pr) ==
    /\ Commit(fs)
    /\ procs' = [procs EXCEPT ![p] = pr]
    /\ last' = IF pr.pc = "done"
               THEN [op |-> pr.op, path |-> pr.dst, artifacts_dir |-> pr.artifacts_dir,
                     res |-> pr.res]
               ELSE last
    /\ registered' = IF pr.pc = "done" /\ pr.op = "register" /\ pr.res.kind = "ok"
                        /\ pr.dst \notin DOMAIN registered
                     THEN Extend(registered, pr.dst, Snapshot(fs, pr.dst))
                     ELSE registered
    /\ promoted' = IF procs[p].pc = "p_append"
                   THEN [promoted EXCEPT ![model_root(pr.task, pr.model_name)] =
                           Append(@, Promotion(pr.op, pr.task, pr.model_name, pr.alias,
                                               pr.version, pr.actor, pr.reason))]
                   ELSE promoted
    /\ UNCHANGED tampered

CallRegister(p, versions, artifacts, metadatas, aliases, callers) ==
    \E task \in Tasks, model_name \in Models, version \in versions,
       artifacts_dir \in artifacts, metadata \in metadatas, set_alias \in aliases,
       caller \in callers :
        /\ procs[p].pc \in { "idle", "done" }
        /\ procs' = [procs EXCEPT ![p] =
              [IdleProc EXCEPT !.op = "register", !.pc = "r_artifacts", !.task = task,
                  !.model_name = model_name, !.version = version, !.alias = set_alias,
                  !.actor = caller[1], !.reason = caller[2],
                  !.artifacts_dir = artifacts_dir, !.metadata = metadata,
                  !.dst = version_dir(task, model_name, version),
                  !.existed = PathExists(FS, version_dir(task, model_name, version))]]
        /\ UNCHANGED << dirs, files, clock, last, registered, promoted, tampered >>

CallPromote(p, versions, aliases, callers) ==
    \E task \in Tasks, model_name \in Models, alias \in aliases, version \in versions,
       caller \in callers :
        /\ procs[p].pc \in { "idle", "done" }
        /\ procs' = [procs EXCEPT ![p] =
              [IdleProc EXCEPT !.op = "promote", !.pc = "p_dirs", !.task = task,
                  !.model_name = model_name, !.version = version, !.alias = alias,
                  !.actor = caller[1], !.reason = caller[2],
                  !.dst = version_dir(task, model_name, version),
                  !.existed = PathExists(FS, version_dir(task, model_name, version))]]
        /\ UNCHANGED << dirs, files, clock, last, registered, promoted, tampered >>

\* register_model, api.py lines 58-60, 64, 66-68, 71, 74-79, 82, 85-99.
RArtifacts(p) ==
    LET pr == procs[p]
        r == artifacts_dir_missing(FS, pr.task, pr.model_name)
    IN  /\ pr.pc = "r_artifacts"
        /\ IF ~pr.artifacts_dir.exists
           THEN Advance(p, r.fs, Done(pr, r.res))
           ELSE Advance(p, FS, [pr EXCEPT !.pc = "r_dirs"])

RDirs(p) ==
    LET pr == procs[p]
    IN  /\ pr.pc = "r_dirs"
        /\ Advance(p, _ensure_model_dirs(FS, pr.task, pr.model_name), [pr EXCEPT !.pc = "r_exists"])

RExists(p) ==
    LET pr == procs[p]
        r == version_already_exists(FS, pr.dst, pr.artifacts_dir)
    IN  /\ pr.pc = "r_exists"
        /\ IF exists(FS, pr.dst)
           THEN Advance(p, r.fs, Done(pr, r.res))
           ELSE Advance(p, FS, [pr EXCEPT !.pc = "r_makedirs"])

RMakedirs(p) ==
    LET pr == procs[p]
        made == copytree_makedirs(FS, pr.dst)
        todo == DOMAIN pr.artifacts_dir.files
    IN  /\ pr.pc = "r_makedirs"
        /\ IF made.err.kind # "ok"
           THEN Advance(p, made.fs, [Done(pr, made.err) EXCEPT !.copy = "failed"])
           ELSE Advance(p, made.fs,
                        [pr EXCEPT !.todo = todo,
                                   !.pc = IF todo = {} THEN "r_meta" ELSE "r_copy",
                                   !.copy = IF todo = {} THEN "ok" ELSE "none"])

RCopy(p) ==
    LET pr == procs[p]
    IN  /\ pr.pc = "r_copy"
        /\ \E n \in pr.todo :
              Advance(p, copy_file(FS, pr.artifacts_dir, pr.dst, n),
                      [pr EXCEPT !.todo = @ \ { n },
                                 !.pc = IF pr.todo = { n } THEN "r_meta" ELSE "r_copy",
                                 !.copy = IF pr.todo = { n } THEN "ok" ELSE "none"])

RMeta(p, bound) ==
    LET pr == procs[p]
        meta == merge_metadata(pr.metadata, pr.task, pr.model_name, pr.version,
                               now_utc_iso(FS)).meta
    IN  /\ pr.pc = "r_meta"
        /\ WithinBounds(Tick(FS), bound)
        /\ Advance(p, Tick(FS),
                   [pr EXCEPT !.wpath = Child(pr.dst, "model_meta.json"),
                              !.wtext = JsonText(meta), !.ret = "r_validate", !.pc = "w_mkdir"])

RValidate(p) ==
    LET pr == procs[p]
        valid == validate_package_files(FS, pr.dst)
        r == validation_failed(FS, pr.dst, valid)
    IN  /\ pr.pc = "r_validate"
        /\ IF valid.kind # "ok"
           THEN Advance(p, r.fs, Done(pr, r.res))
           ELSE Advance(p, FS, [pr EXCEPT !.pc = "r_manifest"])

RManifest(p) ==
    LET pr == procs[p]
        written == write_sha256_manifest(FS, pr.dst, Child(pr.dst, "sha256sums.txt"), REQUIRED_FILES)
    IN  /\ pr.pc = "r_manifest"
        /\ IF Truthy(pr.alias)
           THEN Advance(p, written.fs, [pr EXCEPT !.hashes = written.hashes, !.pc = "p_dirs"])
           ELSE Advance(p, written.fs,
                        Done(pr, [Ok EXCEPT !.path = pr.dst, !.hashes = written.hashes]))

\* promote_model, api.py lines 140, 141-143, 145-154, 156-165.
PDirs(p) ==
    LET pr == procs[p]
    IN  /\ pr.pc = "p_dirs"
        /\ Advance(p, _ensure_model_dirs(FS, pr.task, pr.model_name), [pr EXCEPT !.pc = "p_exists"])

PExists(p) ==
    LET pr == procs[p]
    IN  /\ pr.pc = "p_exists"
        /\ IF ~PathExists(FS, version_dir(pr.task, pr.model_name, pr.version))
           THEN Advance(p, FS, Done(pr, Raise("ModelNotFound", "Cannot promote missing version", << >>)))
           ELSE Advance(p, FS, [pr EXCEPT !.pc = "p_payload"])

PPayload(p, bound) ==
    LET pr == procs[p]
        payload == [task |-> pr.task, model_name |-> pr.model_name, alias |-> pr.alias,
                    version |-> pr.version, updated_at |-> now_utc_iso(FS),
                    actor |-> pr.actor,
                    reason |-> IF pr.op = "register" THEN Or(pr.reason, "register_model")
                               ELSE pr.reason]
    IN  /\ pr.pc = "p_payload"
        /\ WithinBounds(Tick(FS), bound)
        /\ Advance(p, Tick(FS),
                   [pr EXCEPT !.wpath = alias_path(pr.task, pr.model_name, pr.alias),
                              !.wtext = JsonText(payload), !.ret = "p_append", !.pc = "w_mkdir"])

PAppend(p) ==
    LET pr == procs[p]
        payload == JsonLoads(pr.wtext)
        ev == PromotionEvent(pr.task, pr.model_name, pr.alias, pr.version, payload.actor,
                             payload.reason, payload.updated_at)
    IN  /\ pr.pc = "p_append"
        /\ Advance(p, append_promotion_event(FS, promotions_log_path(pr.task, pr.model_name), ev),
                   Done(pr, IF pr.op = "register"
                            THEN [Ok EXCEPT !.path = pr.dst, !.hashes = pr.hashes]
                            ELSE Ok))

\* LocalFS.atomic_write_text, localfs.py lines 22, 23, 25-26, 27, 28-33.
WMkdir(p) ==
    LET pr == procs[p]
    IN  /\ pr.pc = "w_mkdir"
        /\ Advance(p, ensure_dirs(FS, Parent(pr.wpath)), [pr EXCEPT !.pc = "w_mkstemp"])

WMkstemp(p) ==
    LET pr == procs[p]
    IN  /\ pr.pc = "w_mkstemp"
        /\ Advance(p, mkstemp(FS, pr.wpath, p),
                   [pr EXCEPT !.tmp = mkstemp_name(FS, pr.wpath, p), !.err = Ok, !.pc = "w_write"])

WWrite(p) ==
    LET pr == procs[p]
    IN  /\ pr.pc = "w_write"
        /\ Advance(p, WriteFile(FS, pr.tmp, pr.wtext), [pr EXCEPT !.pc = "w_replace"])

WReplace(p) ==
    LET pr == procs[p]
    IN  /\ pr.pc = "w_replace"
        /\ Advance(p, os_replace(FS, pr.tmp, pr.wpath), [pr EXCEPT !.pc = "w_cleanup"])

\* After the cleanup the exception of the try block, if any, goes on to the
\* caller; else the call returns.
Returned(pr) == IF pr.err.kind # "ok" THEN Done(pr, pr.err) ELSE [pr EXCEPT !.pc = pr.ret]

WCleanup(p) ==
    LET pr == procs[p]
    IN  /\ pr.pc = "w_cleanup"
        /\ Advance(p, IF PathExists(FS, pr.tmp) THEN unlink_tmp(FS, pr.tmp) ELSE FS, Returned(pr))

\* The steps of atomic_write_text that the operating system refuses (disk
\* full, permissions, ...): mkstemp raises before the try block; a write
\* that raises leaves a part of the text in the temporary file; the error
\* of the unlink in the cleanup is caught and dropped.
OSError == Raise("OSError", "the operating system refused", << >>)

WMkstempFails(p) ==
    LET pr == procs[p]
    IN  /\ pr.pc = "w_mkstemp"
        /\ Advance(p, FS, Done(pr, OSError))

WWriteFails(p) ==
    LET pr == procs[p]
    IN  /\ pr.pc = "w_write"
        /\ Advance(p, WriteFile(FS, pr.tmp, Partial(pr.wtext)),
                   [pr EXCEPT !.err = OSError, !.pc = "w_cleanup"])

WReplaceFails(p) ==
    LET pr == procs[p]
    IN  /\ pr.pc = "w_replace"
        /\ Advance(p, FS, [pr EXCEPT !.err = OSError, !.pc = "w_cleanup"])

WCleanupFails(p) ==
    LET pr == procs[p]
    IN  /\ pr.pc = "w_cleanup"
        /\ PathExists(FS, pr.tmp)
        /\ Advance(p, FS, [Returned(pr) EXCEPT !.unlinked = FALSE])

\* The process of a caller stops in the middle of a call.
Crash(p) ==
    /\ procs[p].pc \notin { "idle", "done", "crashed" }
    /\ procs' = [procs EXCEPT ![p].pc = "crashed", ![p].at = procs[p].pc]
    /\ UNCHANGED << dirs, files, clock, last, registered, promoted, tampered >>

RegisterSteps(p, bound) ==
    \/ RArtifacts(p) \/ RDirs(p) \/ RExists(p) \/ RMakedirs(p) \/ RCopy(p)
    \/ RMeta(p, bound) \/ RValidate(p) \/ RManifest(p)

PromoteSteps(p, bound) == PDirs(p) \/ PExists(p) \/ PPayload(p, bound) \/ PAppend(p)

WriteSteps(p) == WMkdir(p) \/ WMkstemp(p) \/ WWrite(p) \/ WReplace(p) \/ WCleanup(p)

WriteFaults(p) == WMkstempFails(p) \/ WWriteFails(p) \/ WReplaceFails(p) \/ WCleanupFails(p)

\* The engine, called by one caller, one call after the other.
Next ==
    \/ Register(Versions, Artifacts, Metadatas, { None, "latest" }, Callers, MaxClock)
    \/ Promote(Versions, AliasNames, Callers, MaxClock)
    \/ Resolve(ModelRefs)
    \/ Verify(ModelRefs)

Spec == Init /\ [][Next]_vars

\* The engine and out-of-band writes to the files of registered versions.
NextOOB ==
    \/ Register(Versions, { Package("a", {}), Package("b", {}) }, Metadatas,
                { None }, { << None, None >> }, MaxClock)
    \/ Promote({ "v1" }, { "v2" }, { << None, None >> }, MaxClock)
    \/ Resolve({ << "m", "@", "v1" >>, << "m", "@", "v2" >> })
    \/ Verify({ << "m", "@", "v1" >>, << "m", "@", "v2" >> })
    \/ Tamper

SpecOOB == Init /\ [][NextOOB]_vars

\* The engine with an alias that is named like a version.
NextAlias ==
    \/ Register(Versions, { Package("a", {}) }, Metadatas, { None, "latest" },
                Callers, MaxClock + 1)
    \/ Promote({ "v1" }, { "v2" }, { << None, None >> }, MaxClock + 1)
    \/ Resolve(ModelRefs)

SpecAlias == Init /\ [][NextAlias]_vars

\* The engine and out-of-band removals of version directories.
NextStale ==
    \/ Register(Versions, { Package("a", {}) }, Metadatas, { None, "latest" },
                { << None, None >> }, MaxClock)
    \/ Promote(Versions, AliasNames, { << None, None >> }, MaxClock)
    \/ Resolve(ModelRefs)
    \/ Verify(ModelRefs)
    \/ RemoveVersion

SpecStale == Init /\ [][NextStale]_vars

\* The engine given metadata that holds none, some or all of the keys the
\* engine fills in, and packages with or without a metadata document.
MetadatasMerge ==
    { EmptyDict,
      << <<"framework", "sklearn">> >>,
      << <<"version", "custom">>, <<"framework", "sklearn">> >>,
      << <<"created_at", "then">>, <<"task", "other">>, <<"model_name", "other">>,
         <<"version", "custom">> >> }

NextMeta ==
    \/ Register(Versions, { Package("a", {}), Package("a", { "model_meta.json" }) },
                MetadatasMerge, { None, "latest" }, { << None, None >> }, MaxClock)
    \/ Promote(Versions, { "latest" }, { << None, None >> }, MaxClock)
    \/ Verify(ModelRefs)

SpecMeta == Init /\ [][NextMeta]_vars

\* The engine given references that are well formed and references that are
\* not: empty, without "@", with nothing or whitespace on a side of it, with
\* whitespace around the parts, with more than one "@".
ModelRefsParse ==
    { << "m", "@", "v1" >>, << >>, << "m" >>, << " " >>, << "@" >>,
      << "@", "v1" >>, << "m", "@" >>, << " ", "@", "v1" >>, << "m", "@", "\t", " " >>,
      << " ", "m", " ", "@", " ", "v1", "\n" >>,
      << "m", "@", "a", "@", "b" >>, << "m", "@", "@", "v1" >> }

NextRefs ==
    \/ Register({ "v1", "a@b" }, { Package("a", {}) }, Metadatas, { None, "latest" },
                { << None, None >> }, MaxClock)
    \/ Parse(ModelRefsParse)
    \/ Resolve(ModelRefsParse)
    \/ Verify(ModelRefsParse)

SpecRefs == Init /\ [][NextRefs]_vars

\* Two callers register the same version at the same time, one call each,
\* with packages and metadata that may differ.
MetadatasRace == { << <<"framework", "sklearn">> >>, << <<"framework", "torch">> >> }

NextRace ==
    \E p \in Procs :
        \/ procs[p].pc = "idle"
              /\ CallRegister(p, { "v1" }, { Package("a", {}), Package("b", {}) },
                              MetadatasRace, { None, "latest" }, { << None, None >> })
        \/ RegisterSteps(p, MaxClock)
        \/ PromoteSteps(p, MaxClock)
        \/ WriteSteps(p)

SpecRace == Init /\ [][NextRace]_vars

\* Versions are registered by one caller; then two callers promote at the
\* same time, one call each, to the same alias.
NextPromoteRace ==
    \/ (\A p \in Procs : procs[p].pc \in { "idle", "done" })
          /\ Register(Versions, { Package("a", {}) }, Metadatas, { None },
                      { << None, None >> }, MaxClock + 1)
    \/ \E p \in Procs :
          \/ procs[p].pc = "idle" /\ CallPromote(p, Versions, { "latest" }, Callers)
          \/ PromoteSteps(p, MaxClock + 1)
          \/ WriteSteps(p)

SpecPromoteRace == Init /\ [][NextPromoteRace]_vars

\* A version is registered; then callers promote it, whose writes the
\* operating system may refuse and whose process may stop at any step.
NextFaults ==
    \/ (\A p \in Procs : procs[p].pc \in { "idle", "done", "crashed" })
          /\ Register({ "v1" }, { Package("a", {}) }, Metadatas, { None, "latest" },
                      { << None, None >> }, MaxClock)
    \/ \E p \in Procs :
          \/ CallPromote(p, { "v1" }, { "latest" }, Callers)
          \/ PromoteSteps(p, MaxClock)
          \/ WriteSteps(p)
          \/ WriteFaults(p)
          \/ Crash(p)

SpecFaults == Init /\ [][NextFaults]_vars

\* Callers register one version, with a package that is complete or not,
\* and the process of a caller may stop at any step.
NextCrash ==
    \E p \in Procs :
        \/ CallRegister(p, { "v1" }, { Package("a", {}), Package("b", { "sha256sums.txt" }) },
                        Metadatas, { None, "latest" }, { << None, None >> })
        \/ RegisterSteps(p, MaxClock)
        \/ PromoteSteps(p, MaxClock)
        \/ WriteSteps(p)
        \/ Crash(p)

SpecCrash == Init /\ [][NextCrash]_vars

\* One version registered, then its files rewritten, removed or its manifest
\* edited out of band, and resolved with and without verification.
NextDisk ==
    \/ Register({"v1"}, { Package("a", {}) }, Metadatas, { None }, { << None, None >> }, MaxClock)
    \/ Tamper
    \/ RemoveFile(MaxTamper + 1)
    \/ EditManifest(MaxTamper + 1)
    \/ ResolveFlags({ << "m", "@", "v1" >> })
    \/ Verify({ << "m", "@", "v1" >> })

SpecDisk == Init /\ [][NextDisk]_vars

\* One caller, one call after the other, each call taken one step at a
\* time: registers with and without an alias, and promotions.
NextSteps ==
    \/ CallRegister("A", Versions, { Package("a", {}) }, Metadatas, { None, "latest" }, Callers)
    \/ RegisterSteps("A", MaxClock + 1)
    \/ CallPromote("A", Versions, AliasNames, Callers)
    \/ PromoteSteps("A", MaxClock + 1)
    \/ WriteSteps("A")

SpecSteps == Init /\ [][NextSteps]_vars

\* Registers with and without an alias, by callers that give a reason, an
\* empty one, or none, of packages that pass and that fail the validation.
SetAliases == { None, "", "latest" }

CallersRegister == { << None, None >>, << "x", "" >>, << "x", "y" >> }

NextRegister ==
    \/ RegisterAlias(Versions, { Package("a", {}), Package("a", {"sha256sums.txt"}) },
                     Metadatas, SetAliases, CallersRegister, MaxClock + 1)
    \/ Promote(Versions, { "latest" }, { << "x", "y" >> }, MaxClock + 1)
    \/ Resolve({ << "m", "@", "latest" >> })

SpecRegister == Init /\ [][NextRegister]_vars

\* The functions of the package layer called on their own, on a version
\* directory that lacks any of its files.
ArtifactsLibrary == { Package("a", {}), Package("a", {"model_meta.json"}) }

IncludeLists == { REQUIRED_FILES, HASHED_FILES }

NextLibrary ==
    \/ Register({"v1"}, ArtifactsLibrary, Metadatas, { None }, { << None, None >> }, MaxClock)
    \/ RemoveFile(Len(REQUIRED_FILES))
    \/ Validate
    \/ WriteManifest(IncludeLists)

SpecLibrary == Init /\ [][NextLibrary]_vars

\* A package whose producer put a manifest of its own files in it.
PackageWithManifest(b) ==
    [exists |-> TRUE,
     files |-> [n \in DOMAIN Package(b, {}).files |->
                  IF n = "sha256sums.txt"
                  THEN Lines([i \in 1..Len(HASHED_FILES) |->
                                << << "sha256", Package(b, {}).files[HASHED_FILES[i]] >>,
                                   HASHED_FILES[i] >>])
                  ELSE Package(b, {}).files[n]]]

ArtifactsVisible == { Package("a", {}), PackageWithManifest("a") }

\* One caller registers a version, one step at a time, while another
\* resolves and verifies it.
NextVisible ==
    \/ procs["A"].pc = "idle"
          /\ CallRegister("A", { "v1" }, ArtifactsVisible, Metadatas, { None }, { << None, None >> })
    \/ RegisterSteps("A", MaxClock)
    \/ WriteSteps("A")
    \/ Resolve({ << "m", "@", "v1" >> })
    \/ Verify({ << "m", "@", "v1" >> })

SpecVisible == Init /\ [][NextVisible]_vars

-----------------------------------------------------------------------------
(* Properties.  A version directory is <<"tasks", task, "models", model,    *)
(* "versions", version>>.                                                   *)

TaskOf(vdir) == vdir[2]
ModelOf(vdir) == vdir[4]
VersionOf(vdir) == vdir[6]

\* "<model>@<version>" for a version directory.
RefTo(vdir) == << ModelOf(vdir), "@", VersionOf(vdir) >>

HashedNames == { HASHED_FILES[i] : i \in 1..Len(HASHED_FILES) }

\* The alias documents in the tree.
AliasFiles == { p \in DOMAIN files : Len(p) = 6 /\ p[5] = "aliases" }

\* The promotions recorded for the model of a version directory.
HistoryOf(vdir) == promoted[model_root(TaskOf(vdir), ModelOf(vdir))]

IsPrefix(a, b) == Len(a) <= Len(b) /\ SubSeq(b, 1, Len(a)) = a

\* The model of version directory d has no alias document named like the
\* version of d that points to another version.
NotShadowed(d) ==
    LET doc == alias_path(TaskOf(d), ModelOf(d), VersionOf(d))
    IN  doc \in DOMAIN files => JsonLoads(files[doc]).version = VersionOf(d)

\* C1: a register_model call that passes an artifacts directory while the
\* version directory of its (task, model, version) exists fails with
\* VersionAlreadyExists, whatever the directory holds; a register call that
\* succeeds found no version directory, and no earlier register of the
\* triple had succeeded.
C1_SecondRegisterFails ==
    [][ last'.op = "register" =>
          /\ (last'.artifacts_dir.exists /\ last'.path \in dirs)
                => last'.res.kind = "VersionAlreadyExists"
          /\ last'.res.kind = "ok"
                => (last'.path \notin dirs /\ last'.path \notin DOMAIN registered) ]_vars

\* A second register of a registered version, given other bytes, has failed.
C1_Witness ==
    /\ last.op = "register"
    /\ last.res.kind = "VersionAlreadyExists"
    /\ last.path \in DOMAIN registered
    /\ last.artifacts_dir.files["model.pt"] # registered[last.path]["model.pt"]

\* C2: a register_model call that fails with VersionAlreadyExists leaves the
\* tree as it was: the same directories, the same files with the same
\* content (version files, alias documents, audit log).
C2_FailedRegisterHasNoEffect ==
    [][ (last'.op = "register" /\ last'.res.kind = "VersionAlreadyExists")
          => (dirs' = dirs /\ files' = files) ]_vars

\* A register has failed with VersionAlreadyExists in a tree that holds an
\* alias document and an audit log.
C2_Witness ==
    /\ last.op = "register"
    /\ last.res.kind = "VersionAlreadyExists"
    /\ AliasFiles # {}
    /\ HistoryOf(last.path) # << >>

\* C3: once register_model has returned ok for a version, its directory
\* exists and holds exactly the files, with the content, it held when
\* register returned, in every later state the engine's operations reach.
C3_VersionImmutable ==
    \A d \in DOMAIN registered : d \in dirs /\ Snapshot(FS, d) = registered[d]

\* A registered version has since been promoted, and another register has
\* been refused.
C3_Witness ==
    /\ last.op = "register"
    /\ last.res.kind = "VersionAlreadyExists"
    /\ last.path \in DOMAIN registered
    /\ \E i \in 1..Len(HistoryOf(last.path)) :
          /\ HistoryOf(last.path)[i].op = "promote"
          /\ HistoryOf(last.path)[i].version = VersionOf(last.path)

\* verify_model_ref and resolve_model with verify=True succeed on "model@v",
\* v the version of directory d.
VerifyByRefSucceeds(d) ==
    \A strict_verify \in BOOLEAN :
        /\ verify_model_ref(FS, TaskOf(d), RefTo(d), strict_verify).res.kind = "ok"
        /\ resolve_model(FS, TaskOf(d), RefTo(d), TRUE, strict_verify).res.kind = "ok"

\* C4, as stated: right after a register_model that returned ok,
\* verify_model_ref and resolve_model with verify=True of that version
\* succeed.
C4_AsStated ==
    (last.op = "register" /\ last.res.kind = "ok") => VerifyByRefSucceeds(last.path)

\* C4, amended: right after a register_model that returned ok, the version
\* directory passes the required-file validation and the manifest
\* verification (the manifest covers the bytes on disk, the engine's
\* model_meta.json among them), and verify_model_ref and resolve_model with
\* verify=True of "model@version" succeed when the model has no alias
\* document named like the version that points to another version.
C4_VerifyAfterRegister ==
    (last.op = "register" /\ last.res.kind = "ok") =>
        /\ validate_package_files(FS, last.path).kind = "ok"
        /\ verify_sha256_manifest(FS, last.path, Child(last.path, "sha256sums.txt")).kind = "ok"
        /\ NotShadowed(last.path) => VerifyByRefSucceeds(last.path)

\* A register has returned ok and the model_meta.json on disk is the
\* engine's, not the one of the artifacts directory.
C4_Witness ==
    /\ last.op = "register"
    /\ last.res.kind = "ok"
    /\ files[Child(last.path, "model_meta.json")] # last.artifacts_dir.files["model_meta.json"]

\* The hashed files of a registered version whose bytes are no longer those
\* it had when register returned.
Changed(d) ==
    { n \in HashedNames :
        /\ n \in DOMAIN registered[d]
        /\ Child(d, n) \in DOMAIN files
        /\ files[Child(d, n)] # registered[d][n] }

\* verify_model_ref of "model@v", v the version of directory d, fails with
\* IntegrityError and names a changed file of d; a verify call of "model@v"
\* that was the last call has ended so.
VerifyByRefNamesChanged(d) ==
    /\ \A strict_verify \in BOOLEAN :
          LET r == verify_model_ref(FS, TaskOf(d), RefTo(d), strict_verify).res
          IN  /\ r.kind = "IntegrityError"
              /\ Len(r.names) = 1
              /\ r.names[1] \in Changed(d)
    /\ (last.op = "verify" /\ last.model_ref = RefTo(d)) =>
          /\ last.res.kind = "IntegrityError"
          /\ Len(last.res.names) = 1
          /\ last.res.names[1] \in Changed(d)

\* C5, as stated: when the bytes of a hashed file of a registered version
\* have been changed out of band, verify_model_ref of that version fails
\* with IntegrityError and its message names the changed file.
C5_AsStated ==
    \A d \in DOMAIN registered : Changed(d) # {} => VerifyByRefNamesChanged(d)

\* C5, amended: the same, when the model has no alias document named like
\* the version that points to another version.
C5_TamperDetected ==
    \A d \in DOMAIN registered :
        (Changed(d) # {} /\ NotShadowed(d)) => VerifyByRefNamesChanged(d)

\* A verify of a version with one changed file has failed and named it.
C5_Witness ==
    /\ last.op = "verify"
    /\ last.res.kind = "IntegrityError"
    /\ \E d \in DOMAIN registered :
          /\ last.model_ref = RefTo(d)
          /\ NotShadowed(d)
          /\ Changed(d) = { last.res.names[1] }

\* C6: every alias document names a version whose directory exists.
C6_AliasTargetExists ==
    \A p \in AliasFiles :
        version_dir(p[2], p[4], JsonLoads(files[p]).version) \in dirs

\* Two alias documents exist and a promotion has just been made.
C6_Witness ==
    /\ Cardinality(AliasFiles) = 2
    /\ last.op = "promote"
    /\ last.res.kind = "ok"

\* C7: promote_model of a version whose directory does not exist fails with
\* ModelNotFound, and a promote_model that fails so leaves every file as it
\* was: no alias document is created or changed, no line is appended to the
\* audit log.
C7_PromoteMissingVersion ==
    [][ last'.op = "promote" =>
          /\ last'.path \notin dirs => last'.res.kind = "ModelNotFound"
          /\ last'.res.kind = "ModelNotFound" => files' = files ]_vars

\* A promotion to a missing version has failed in a tree that holds an alias
\* document and an audit log.
C7_Witness ==
    /\ last.op = "promote"
    /\ last.res.kind = "ModelNotFound"
    /\ AliasFiles # {}
    /\ HistoryOf(last.path) # << >>

\* The event a promotion must have left in the log: the arguments of the
\* call, the reason of a register that gave none being "register_model".
ExpectedEvent(p) ==
    [task |-> p.task, model_name |-> p.model_name, alias |-> p.alias,
     version |-> p.version, actor |-> p.actor,
     reason |-> IF p.op = "register" /\ p.reason \in { None, "" }
                THEN "register_model" ELSE p.reason]

\* The fields of a line of the log, but its timestamp.
EventFields(line) ==
    [task |-> JsonLoads(line).task, model_name |-> JsonLoads(line).model_name,
     alias |-> JsonLoads(line).alias, version |-> JsonLoads(line).version,
     actor |-> JsonLoads(line).actor, reason |-> JsonLoads(line).reason]

LogMatchesHistory ==
    \A task \in Tasks, model_name \in Models :
        LET log == LogOf(FS, task, model_name)
            hist == promoted[model_root(task, model_name)]
        IN  /\ Len(log) = Len(hist)
            /\ \A i \in 1..Len(log) : EventFields(log[i]) = ExpectedEvent(hist[i])

LogGrows ==
    \A task \in Tasks, model_name \in Models :
        IsPrefix(LogOf(FS, task, model_name), LogOf(FS, task, model_name)')

\* C8: the audit log of a model holds one line for each promotion that
\* returned ok (by promote_model, or by register_model with an alias), in
\* the order of the calls, each with the task, model, alias, version, actor
\* and reason of its call; and the log of a state is a prefix of the log of
\* every later state.
C8_AuditLogMonotone == []LogMatchesHistory /\ [][LogGrows]_vars

\* The log holds the line of a register with an alias and then the line of
\* a promote_model.
C8_Witness ==
    \E task \in Tasks, model_name \in Models :
        LET hist == promoted[model_root(task, model_name)]
        IN  /\ Len(hist) >= 2
            /\ hist[1].op = "register"
            /\ hist[2].op = "promote"
            /\ Len(LogOf(FS, task, model_name)) >= 2

\* The last call is a register_model with an alias that returned ok.
RegisteredWithAlias ==
    /\ last.op = "register"
    /\ last.res.kind = "ok"
    /\ HistoryOf(last.path) # << >>
    /\ HistoryOf(last.path)[Len(HistoryOf(last.path))].op = "register"
    /\ HistoryOf(last.path)[Len(HistoryOf(last.path))].version = VersionOf(last.path)

\* After the last call, "model@v" and "model@a" resolve to the directory of
\* v, and the document of alias a has version v and the actor of the call.
ResolveEquivalence ==
    LET p == HistoryOf(last.path)[Len(HistoryOf(last.path))]
        doc == alias_path(p.task, p.model_name, p.alias)
    IN  /\ \A verify \in BOOLEAN, strict_verify \in BOOLEAN :
              LET byVersion == resolve_model(FS, p.task, << p.model_name, "@", p.version >>,
                                             verify, strict_verify).res
                  byAlias == resolve_model(FS, p.task, << p.model_name, "@", p.alias >>,
                                           verify, strict_verify).res
              IN  /\ byVersion.kind = "ok"
                  /\ byAlias.kind = "ok"
                  /\ byVersion.path = byAlias.path
                  /\ byAlias.path = last.path
        /\ doc \in DOMAIN files
        /\ JsonLoads(files[doc]).version = p.version
        /\ JsonLoads(files[doc]).actor = p.actor

\* C9, as stated: after register_model(version=v, set_alias=a) has returned
\* ok, resolve_model("model@v") and resolve_model("model@a") return the same
\* path, the directory of v, and the alias document has version v and the
\* actor given to register.
C9_AsStated == RegisteredWithAlias => ResolveEquivalence

\* C9, amended: the same, when the model has no alias document named like v
\* that points to another version.
C9_ResolveEquivalence ==
    (RegisteredWithAlias /\ NotShadowed(last.path)) => ResolveEquivalence

\* The second version has been registered with an alias.
C9_Witness ==
    /\ RegisteredWithAlias
    /\ NotShadowed(last.path)
    /\ Cardinality(DOMAIN registered) = 2

\* C10: resolve_model and verify_model_ref leave the tree as it was, whether
\* they succeed or fail: the same directories and the same files.
C10_ResolveNeverMutates ==
    [][ last'.op \in { "resolve", "verify" } => (dirs' = dirs /\ files' = files) ]_vars

\* C11: register_model with an artifacts_dir that does not exist raises
\* ValidationError and writes nothing: no directory and no file of the
\* registry (version directory, model directory, alias, audit log) is made
\* or changed.
C11_MissingArtifactsRejected ==
    [][ (last'.op = "register" /\ ~last'.artifacts_dir.exists)
            => /\ last'.res.kind = "ValidationError"
               /\ dirs' = dirs
               /\ files' = files
               /\ promoted' = promoted ]_vars

\* Register has been refused for its missing artifacts_dir on a registry
\* that does not hold the model's directory.
C11_Witness ==
    /\ last.op = "register"
    /\ ~last.artifacts_dir.exists
    /\ last.res.kind = "ValidationError"
    /\ model_root(TaskOf(last.path), ModelOf(last.path)) \notin dirs
    /\ files = << >>

\* The alias document and the version directory a model_ref selects in the
\* registry as it is, by the words of the claim: the alias document named
\* like the selector, and the version that document names or, when there is
\* no such document, the version named like the selector.
SelectedAlias(task, model_ref) ==
    alias_path(task, parse_model_ref(model_ref).model_name, parse_model_ref(model_ref).selector)

SelectedVersionDir(task, model_ref) ==
    LET ref == parse_model_ref(model_ref)
    IN  version_dir(task, ref.model_name,
                    IF SelectedAlias(task, model_ref) \in DOMAIN files
                    THEN files[SelectedAlias(task, model_ref)][2].version
                    ELSE ref.selector)

\* C12: resolve_model (and verify_model_ref) gives a path only when the
\* version directory it resolved to exists when it is called; it raises
\* ModelNotFound when the selector is neither an alias document nor a
\* version directory, and when the alias document names a version whose
\* directory has been removed.
C12_ResolveOnlyExisting ==
    [][ (last'.op \in { "resolve", "verify" } /\ parse_model_ref(last'.model_ref).err.kind = "ok")
            => /\ last'.res.kind = "ok"
                     => (last'.res.path \in dirs /\ last'.res.path \in dirs'
                         /\ last'.res.path = SelectedVersionDir(last'.task, last'.model_ref))
               /\ SelectedVersionDir(last'.task, last'.model_ref) \notin dirs
                     => last'.res.kind = "ModelNotFound" ]_vars

\* Resolve has been refused for an alias whose document is there and names
\* a version that was registered and removed since.
C12_Witness ==
    /\ last.op = "resolve"
    /\ last.res.kind = "ModelNotFound"
    /\ SelectedAlias(last.task, last.model_ref) \in DOMAIN files
    /\ SelectedVersionDir(last.task, last.model_ref) \in DOMAIN registered
    /\ SelectedVersionDir(last.task, last.model_ref) \notin dirs

\* The call pr of register_model is copying into its version directory, or
\* has copied into it.
Copying(pr) == pr.op = "register" /\ (pr.pc = "r_copy" \/ pr.copy = "ok")

\* The file named n with this content is of the call pr of register_model:
\* a file of its artifacts directory, a metadata document that holds its
\* metadata, its temporary file, or a manifest of such files.
OwnFile(pr, n, content) ==
    \/ n \in DOMAIN pr.artifacts_dir.files /\ content = pr.artifacts_dir.files[n]
    \/ /\ n = "model_meta.json"
       /\ content[1] = "json"
       /\ \A i \in 1..Len(pr.metadata) : \E j \in 1..Len(content[2]) : content[2][j] = pr.metadata[i]
    \/ Child(pr.dst, n) = pr.tmp /\ content \in { EmptyFile, pr.wtext }

FromCall(pr, n, content) ==
    \/ OwnFile(pr, n, content)
    \/ /\ n = "sha256sums.txt"
       /\ content[1] = "lines"
       /\ \A i \in 1..Len(content[2]) : OwnFile(pr, content[2][i][2], content[2][i][1][2])

RaceInvariant ==
    /\ \A p \in Procs : \A q \in Procs \ { p } :
          procs[p].dst = procs[q].dst => ~(Copying(procs[p]) /\ Copying(procs[q]))
    /\ \A p \in Procs :
          procs[p].copy = "failed"
             => /\ procs[p].pc = "done"
                /\ procs[p].res.kind = "FileExistsError"
                /\ \E q \in Procs \ { p } :
                      /\ procs[q].dst = procs[p].dst
                      /\ Copying(procs[q])
                      /\ \A n \in Listing(FS, procs[p].dst) :
                            FromCall(procs[q], n, files[Child(procs[p].dst, n)])
                      /\ procs[q].pc = "done"
                            => /\ procs[q].res.kind = "ok"
                               /\ Listing(FS, procs[q].dst) = { REQUIRED_FILES[i] : i \in 1..Len(REQUIRED_FILES) }
                               /\ verify_sha256_manifest(FS, procs[q].dst, Child(procs[q].dst, "sha256sums.txt")).kind = "ok"

LoserWritesNothing ==
    \A p \in Procs :
        (procs'[p].copy = "failed" /\ procs[p].copy # "failed") => (files' = files /\ dirs' = dirs)

\* C13: when two register_model calls for the same version have both passed
\* the existence check before either copied, one copy_tree succeeds and the
\* other call fails (FileExistsError) in a step that writes nothing; at no
\* time are two calls copying into the directory, every file in it is of
\* the winner's call, and when the winner has returned the directory holds
\* the seven required files with the winner's artifacts and metadata and a
\* manifest that verifies.
C13_ConcurrentRegister == []RaceInvariant /\ [][LoserWritesNothing]_vars

\* Both calls have ended, given different packages and metadata: one has
\* lost the race at copy_tree, the other has returned ok.
C13_Witness ==
    \E p \in Procs : \E q \in Procs \ { p } :
        /\ procs[p].copy = "failed" /\ procs[p].pc = "done"
        /\ procs[q].copy = "ok" /\ procs[q].pc = "done" /\ procs[q].res.kind = "ok"
        /\ procs[p].artifacts_dir # procs[q].artifacts_dir
        /\ procs[p].metadata # procs[q].metadata

\* The alias document of the call pr of promote_model, complete: every
\* field is of that call; the time is the one the document gives.
IsDocumentOf(pr, content) ==
    /\ content[1] = "json"
    /\ content[2] = [task |-> pr.task, model_name |-> pr.model_name, alias |-> pr.alias,
                     version |-> pr.version, updated_at |-> content[2].updated_at,
                     actor |-> pr.actor, reason |-> pr.reason]

\* The lines of the audit log that are the event of the call pr.
EventLines(pr) ==
    LET log == LogOf(FS, pr.task, pr.model_name)
    IN  { i \in 1..Len(log) :
            log[i] = JsonText([task |-> pr.task, model_name |-> pr.model_name,
                               alias |-> pr.alias, version |-> pr.version,
                               actor |-> pr.actor, reason |-> pr.reason,
                               ts_utc |-> pr.wtext[2].updated_at]) }

\* A call to promote an existing version that has ended has succeeded and
\* has its event once in the log; a call that has not appended yet has none.
PromotionsSucceed ==
    \A p \in Procs :
        (procs[p].op = "promote" /\ procs[p].existed)
            => /\ procs[p].pc = "done"
                    => (procs[p].res.kind = "ok" /\ Cardinality(EventLines(procs[p])) = 1)
               /\ procs[p].pc \in { "w_mkdir", "w_mkstemp", "w_write", "w_replace",
                                    "w_cleanup", "p_append" }
                    => EventLines(procs[p]) = {}

\* The alias document changes only in the os.replace of a call, and is then
\* the complete document of that call.
LastWriterWins ==
    \A p \in Procs :
        LET ap == alias_path(procs[p].task, procs[p].model_name, procs[p].alias)
            Doc(f) == IF ap \in DOMAIN f THEN f[ap] ELSE << >>
            replaces == procs[p].pc = "w_replace" /\ procs'[p].pc = "w_cleanup"
        IN  procs[p].op = "promote"
                => /\ replaces => IsDocumentOf(procs[p], Doc(files'))
                   /\ Doc(files') # Doc(files)
                        => \E q \in Procs :
                              /\ procs[q].pc = "w_replace" /\ procs'[q].pc = "w_cleanup"
                              /\ procs[q].wpath = ap
                              /\ IsDocumentOf(procs[q], Doc(files'))

\* C14: two promote_model calls on the same alias, to versions that exist,
\* both succeed however they interleave; the alias document changes only
\* when a call's os.replace happens and is then that call's complete
\* document, so that in the end it is the document of the call that
\* replaced last; the audit log holds the event of each call once.
C14_ConcurrentPromote == []PromotionsSucceed /\ [][LastWriterWins]_vars

\* Both calls have ended, for different versions and by different callers,
\* and the alias document is that of one of them.
C14_Witness ==
    \E p \in Procs : \E q \in Procs \ { p } :
        /\ procs[p].op = "promote" /\ procs[p].pc = "done" /\ procs[p].res.kind = "ok"
        /\ procs[q].op = "promote" /\ procs[q].pc = "done" /\ procs[q].res.kind = "ok"
        /\ procs[p].alias = procs[q].alias
        /\ procs[p].version # procs[q].version
        /\ procs[p].actor # procs[q].actor
        /\ Len(LogOf(FS, procs[p].task, procs[p].model_name)) = 2
        /\ IsDocumentOf(procs[p], files[alias_path(procs[p].task, procs[p].model_name, procs[p].alias)])
        /\ procs[p].wtext[2].updated_at = "2"

\* The calls of atomic_write_text that are under way, and those that have
\* returned, with a result or with an exception.
InWrite(pr) == pr.pc \in { "w_mkdir", "w_mkstemp", "w_write", "w_replace", "w_cleanup" }

WriteReturned(pr) == pr.tmp # << >> /\ ~InWrite(pr) /\ pr.pc # "crashed"

\* The files the engine writes with atomic_write_text: the metadata
\* documents and the alias documents.
WriteTargets ==
    { path \in DOMAIN files :
        path[Len(path)] \in { "model_meta.json" } \cup { a \o ".json" : a \in AliasNames } }

\* No target holds a part of a text.
NoPartialTarget == \A path \in WriteTargets : files[path][1] # "partial"

\* In a step of a call of atomic_write_text (or the crash of its process)
\* the target stays as it was, or becomes the whole text of the call.
PriorOrNew ==
    \A p \in Procs :
        (InWrite(procs[p]) /\ procs'[p] # procs[p])
            => LET t == procs[p].wpath
               IN  \/ t \notin DOMAIN files /\ t \notin DOMAIN files'
                   \/ t \in DOMAIN files /\ t \in DOMAIN files' /\ files'[t] = files[t]
                   \/ t \in DOMAIN files' /\ files'[t] = procs[p].wtext

\* C15, as stated: the target is always whole, and after the call has
\* returned, with or without an error, its temporary file is gone.
C15_AsStated ==
    /\ []NoPartialTarget
    /\ [][PriorOrNew]_vars
    /\ [](\A p \in Procs : WriteReturned(procs[p]) => procs[p].tmp \notin DOMAIN files)

\* C15: at every step of atomic_write_text, failed steps and crashes
\* included, the target holds its prior content (or is absent) or the whole
\* new text, never a part; after the call has returned, with or without an
\* error, its temporary file is gone unless the os.unlink of the cleanup
\* itself failed.
C15_AtomicWrite ==
    /\ []NoPartialTarget
    /\ [][PriorOrNew]_vars
    /\ [](\A p \in Procs : (WriteReturned(procs[p]) /\ procs[p].unlinked)
                               => procs[p].tmp \notin DOMAIN files)

\* A write over an alias document that was there has failed in the middle
\* of the text: the call has returned the error, the document is the prior
\* one and the temporary file is gone.
C15_Witness ==
    \E p \in Procs :
        /\ procs[p].op = "promote" /\ procs[p].pc = "done"
        /\ procs[p].res.kind = "OSError"
        /\ procs[p].tmp # << >> /\ procs[p].tmp \notin DOMAIN files
        /\ procs[p].unlinked
        /\ procs[p].wpath \in DOMAIN files
        /\ files[procs[p].wpath] # procs[p].wtext
        /\ files[procs[p].wpath][1] = "json"

\* The required files the engine does not write itself.
SuppliedFiles ==
    { REQUIRED_FILES[i] : i \in 1..Len(REQUIRED_FILES) } \ { "model_meta.json", "sha256sums.txt" }

\* C16: register_model of a new version, given an artifacts directory that
\* holds the five required files the engine does not write, with or without
\* model_meta.json and sha256sums.txt, returns ok and leaves the seven
\* required files in the version directory.
C16_AcceptsWithoutMetaOrManifest ==
    [][ (/\ last'.op = "register"
         /\ last'.artifacts_dir.exists
         /\ SuppliedFiles \subseteq DOMAIN last'.artifacts_dir.files
         /\ last'.path \notin dirs)
            => /\ last'.res.kind = "ok"
               /\ \A i \in 1..Len(REQUIRED_FILES) :
                     Child(last'.path, REQUIRED_FILES[i]) \in DOMAIN files' ]_vars

\* The call pr of register_model has failed, or its process has stopped,
\* after its copy had started.
StoppedAfterCopy(pr) ==
    /\ pr.op = "register"
    /\ pr.copy = "ok" \/ pr.todo # {}
    /\ pr.pc = "crashed" \/ (pr.pc = "done" /\ pr.res.kind # "ok")

\* ... at the validation of the required files, or before.
StoppedBeforePromotion(pr) ==
    \/ pr.pc = "done" /\ pr.res.kind = "ValidationError"
    \/ pr.pc = "crashed" /\ pr.at \in { "r_copy", "r_meta", "r_validate", "r_manifest" }
    \/ pr.pc = "crashed" /\ pr.ret = "r_validate"
                         /\ pr.at \in { "w_mkdir", "w_mkstemp", "w_write", "w_replace", "w_cleanup" }

\* The version directory of the call is there with the files copied so far.
CopiedFilesStay(pr) ==
    /\ pr.dst \in dirs
    /\ \A n \in (DOMAIN pr.artifacts_dir.files) \ pr.todo :
          /\ Child(pr.dst, n) \in DOMAIN files
          /\ n \in SuppliedFiles => files[Child(pr.dst, n)] = pr.artifacts_dir.files[n]

\* The model of the call has no alias document and no line in its audit log.
NothingPromoted(pr) ==
    /\ \A a \in AliasNames : alias_path(pr.task, pr.model_name, a) \notin DOMAIN files
    /\ LogOf(FS, pr.task, pr.model_name) = << >>

\* A register_model call for a version whose directory was there when the
\* call began, given an artifacts directory, has failed with
\* VersionAlreadyExists if it has ended.
RetryRefused ==
    \A p \in Procs :
        (procs[p].op = "register" /\ procs[p].existed /\ procs[p].artifacts_dir.exists
            /\ procs[p].pc = "done")
          => procs[p].res.kind = "VersionAlreadyExists"

\* C17, as stated: whenever register_model has failed or stopped after the
\* copy had started, the version directory is there with the copied files,
\* no alias is written and no audit line is appended, and every later
\* register of the version fails with VersionAlreadyExists.
C17_AsStated ==
    /\ RetryRefused
    /\ \A p \in Procs :
          StoppedAfterCopy(procs[p]) => (CopiedFilesStay(procs[p]) /\ NothingPromoted(procs[p]))

\* C17: whenever register_model has failed or stopped after the copy had
\* started, the version directory is there with the copied files, and every
\* later register of the version fails with VersionAlreadyExists; when it
\* failed at the validation, or stopped before the promotion, no alias is
\* written and no audit line is appended.
C17_NoRollback ==
    /\ RetryRefused
    /\ \A p \in Procs :
          StoppedAfterCopy(procs[p])
             => /\ CopiedFilesStay(procs[p])
                /\ StoppedBeforePromotion(procs[p]) => NothingPromoted(procs[p])

\* A register has failed at the validation, and a later register of the
\* same version, given a complete package, has been refused.
C17_Witness ==
    \E p \in Procs : \E q \in Procs \ { p } :
        /\ StoppedAfterCopy(procs[p])
        /\ procs[p].pc = "done" /\ procs[p].res.kind = "ValidationError"
        /\ procs[q].op = "register" /\ procs[q].existed /\ procs[q].pc = "done"
        /\ procs[q].dst = procs[p].dst
        /\ procs[q].artifacts_dir = Package("a", {})
        /\ procs[q].res.kind = "VersionAlreadyExists"
        /\ ~PathExists(FS, Child(procs[p].dst, "sha256sums.txt"))

\* The value of key k in the dict d.
ValueOf(d, k) == d[CHOOSE i \in 1..Len(d) : d[i][1] = k][2]

\* The metadata document that the last call, a register_model that has
\* returned ok, has left in its version directory.
MetaDocument == files[Child(last.path, "model_meta.json")][2]

\* The values the engine gives to the keys it fills in.
EngineValue(k) ==
    IF k = "task" THEN TaskOf(last.path)
    ELSE IF k = "model_name" THEN ModelOf(last.path)
    ELSE VersionOf(last.path)

\* C18: the model_meta.json that a successful register_model leaves in the
\* version directory holds the keys of the caller's metadata, with the
\* caller's values, and the keys task, model_name, version and created_at,
\* with the engine's values where the caller gave none, and no other key;
\* it is a json document whatever the artifacts directory held under that
\* name; the caller's metadata dict is after the call what it was before.
C18_MetadataMerge ==
    (last.op = "register" /\ last.res.kind = "ok")
        => /\ files[Child(last.path, "model_meta.json")][1] = "json"
           /\ DictKeys(MetaDocument)
                = DictKeys(last.metadata) \cup { "task", "model_name", "version", "created_at" }
           /\ Len(MetaDocument) = Cardinality(DictKeys(MetaDocument))
           /\ \A k \in DictKeys(last.metadata) :
                 ValueOf(MetaDocument, k) = ValueOf(last.metadata, k)
           /\ \A k \in { "task", "model_name", "version" } \ DictKeys(last.metadata) :
                 ValueOf(MetaDocument, k) = EngineValue(k)
           /\ "created_at" \notin DictKeys(last.metadata)
                 => ValueOf(MetaDocument, "created_at") \in { ToString(n) : n \in 0..clock }
           /\ last.metadata_after = last.metadata

\* A register has returned ok, given metadata with a version of its own and
\* no task, and a package whose metadata document was another one.
C18_Witness ==
    /\ last.op = "register" /\ last.res.kind = "ok"
    /\ "version" \in DictKeys(last.metadata)
    /\ ValueOf(last.metadata, "version") # VersionOf(last.path)
    /\ ValueOf(MetaDocument, "version") = "custom"
    /\ "task" \notin DictKeys(last.metadata)
    /\ "model_meta.json" \in DOMAIN last.artifacts_dir.files
    /\ last.artifacts_dir.files["model_meta.json"] # files[Child(last.path, "model_meta.json")]

\* The places of the "@" in a model_ref, and its parts: what is before the
\* first "@" and what is after it.
Ats(model_ref) == { i \in 1..Len(model_ref) : model_ref[i] = "@" }

FirstAt(model_ref) == CHOOSE i \in Ats(model_ref) : \A j \in Ats(model_ref) : i <= j

NamePart(model_ref) == SubSeq(model_ref, 1, FirstAt(model_ref) - 1)

SelectorPart(model_ref) == SubSeq(model_ref, FirstAt(model_ref) + 1, Len(model_ref))

\* A part with nothing in it but whitespace.
Blank(part) == \A i \in 1..Len(part) : part[i] \in { " ", "\t", "\n" }

\* C19: parse_model_ref, resolve_model and verify_model_ref fail with
\* InvalidModelRef for every model_ref that holds two or more "@".
C19_ExactlyOneSeparator ==
    (last.op \in { "parse", "resolve", "verify" } /\ Cardinality(Ats(last.model_ref)) >= 2)
        => last.res.kind = "InvalidModelRef"

\* The references the claim says are not valid.
Malformed(model_ref) ==
    \/ model_ref = << >>
    \/ Ats(model_ref) = {}
    \/ Blank(NamePart(model_ref))
    \/ Blank(SelectorPart(model_ref))

\* C20: parse_model_ref("m@v1") gives the name "m" and the selector "v1";
\* the empty reference, a reference without "@" and a reference whose name
\* part or selector part is empty once the whitespace around it is taken
\* away fail with InvalidModelRef, and resolve_model and verify_model_ref
\* fail so without making or changing a directory or a file.
C20_ReferenceParsing ==
    [][ /\ (last'.op = "parse" /\ last'.model_ref = << "m", "@", "v1" >>)
            => (last'.res.kind = "ok" /\ last'.model_name = "m" /\ last'.selector = "v1")
        /\ (last'.op \in { "parse", "resolve", "verify" } /\ Malformed(last'.model_ref))
            => (last'.res.kind = "InvalidModelRef" /\ dirs' = dirs /\ files' = files) ]_vars

\* Resolve has been refused, on an empty registry, for a reference whose
\* name part is whitespace only.
C20_Witness ==
    /\ last.op = "resolve"
    /\ last.model_ref = << " ", "@", "v1" >>
    /\ last.res.kind = "InvalidModelRef"
    /\ dirs = {}

\* The call verified: it is a verify_model_ref, or a resolve_model with
\* verification on.
Verifying(call) == call.op = "verify" \/ (call.op = "resolve" /\ call.verify)

ManifestOf(d) == Child(d, "sha256sums.txt")

\* C21: verify_model_ref, and resolve_model with verification on, of a
\* version whose directory exists and whose manifest sha256sums.txt is
\* missing fails with IntegrityError.
C21_MissingManifestIntegrityError ==
    [][ ( /\ Verifying(last')
          /\ SelectedVersionDir(last'.task, last'.model_ref) \in dirs
          /\ ManifestOf(SelectedVersionDir(last'.task, last'.model_ref)) \notin DOMAIN files )
            => last'.res.kind = "IntegrityError" ]_vars

\* The manifest of version directory d has a line for the file n of d, with
\* the digest of the bytes the file holds now.
HasMatchingEntry(d, n) ==
    /\ ManifestOf(d) \in DOMAIN files
    /\ Child(d, n) \in DOMAIN files
    /\ \E i \in 1..Len(ReadLines(files[ManifestOf(d)])) :
          ReadLines(files[ManifestOf(d)])[i] = << <<"sha256", files[Child(d, n)]>>, n >>

\* C22: verify_model_ref of a version whose directory exists succeeds
\* exactly when each of the six hashed files has a line in the manifest
\* with the digest of its bytes on disk; hence it fails when a hashed file
\* of a registered version holds other bytes than those registered,
\* whatever was done to the lines of sha256sums.txt.
C22_VerifiedIffAllHashedMatch ==
    [][ (last'.op = "verify" /\ SelectedVersionDir(last'.task, last'.model_ref) \in dirs)
            => LET d == SelectedVersionDir(last'.task, last'.model_ref)
               IN  /\ (last'.res.kind = "ok") <=> (\A n \in HashedNames : HasMatchingEntry(d, n))
                   /\ (d \in DOMAIN registered /\ Changed(d) # {}) => last'.res.kind # "ok" ]_vars

\* What a resolve_model that looked for the version w of model_name gave:
\* the directory of w when it returned, which it did when it verified
\* nothing, and ModelNotFound when that directory is not there.
ResolvedAs(call, model_name, w) ==
    LET d == version_dir(call.task, model_name, w)
    IN  /\ call.res.kind = "ok" => call.res.path = d
        /\ (d \in dirs /\ ~call.verify) => call.res.kind = "ok"
        /\ d \in dirs => call.res.kind \in { "ok", "ValidationError", "IntegrityError" }
        /\ d \notin dirs => call.res.kind = "ModelNotFound"

\* C23: resolve_model("m@s") looks for the version w that the alias document
\* named s holds when there is such a document, also when a version
\* directory named s exists and w is another version; it looks for the
\* version s only when there is no alias document named s.
C23_AliasBeforeVersion ==
    [][ (last'.op = "resolve" /\ parse_model_ref(last'.model_ref).err.kind = "ok")
            => LET ref == parse_model_ref(last'.model_ref)
                   doc == alias_path(last'.task, ref.model_name, ref.selector)
               IN  IF doc \in DOMAIN files
                   THEN ResolvedAs(last', ref.model_name, JsonLoads(files[doc]).version)
                   ELSE ResolvedAs(last', ref.model_name, ref.selector) ]_vars

\* resolve_model("m@v2") has returned the directory of v1, the version the
\* alias document named v2 holds, while the version directory v2 exists.
C23_Witness ==
    /\ last.op = "resolve"
    /\ last.res.kind = "ok"
    /\ LET ref == parse_model_ref(last.model_ref)
           doc == alias_path(last.task, ref.model_name, ref.selector)
       IN  /\ doc \in DOMAIN files
           /\ JsonLoads(files[doc]).version # ref.selector
           /\ version_dir(last.task, ref.model_name, ref.selector) \in dirs
           /\ last.res.path = version_dir(last.task, ref.model_name, JsonLoads(files[doc]).version)

RequiredNames == { REQUIRED_FILES[i] : i \in 1..Len(REQUIRED_FILES) }

\* Version directory d lacks a required file.
Incomplete(d) == \E n \in RequiredNames : Child(d, n) \notin DOMAIN files

\* A line of the manifest of d names a file that is not in d, or whose
\* bytes have another digest than the line gives.
Mismatch(d) ==
    /\ ManifestOf(d) \in DOMAIN files
    /\ \E i \in 1..Len(ReadLines(files[ManifestOf(d)])) :
          LET line == ReadLines(files[ManifestOf(d)])[i]
          IN  \/ Child(d, line[2]) \notin DOMAIN files
              \/ << "sha256", files[Child(d, line[2])] >> # line[1]

\* C24: resolve_model of a version whose directory exists checks the
\* package when its verify argument or the strict_verify flag is true, and
\* only then: it raises ValidationError when a required file is missing
\* (also when a digest differs as well), IntegrityError when the required
\* files are there and a digest differs, and returns the path otherwise;
\* with both false it returns the path whatever the directory holds.
C24_VerificationPolicy ==
    [][ (last'.op = "resolve" /\ SelectedVersionDir(last'.task, last'.model_ref) \in dirs)
            => LET d == SelectedVersionDir(last'.task, last'.model_ref)
               IN  IF last'.args[1] \/ last'.args[2]
                   THEN last'.res.kind = IF Incomplete(d) THEN "ValidationError"
                                         ELSE IF Mismatch(d) THEN "IntegrityError"
                                         ELSE "ok"
                   ELSE last'.res.kind = "ok" /\ last'.res.path = d ]_vars

\* resolve_model called with verify=False under strict_verify=True has
\* raised ValidationError for a version that lacks a required file and has
\* a hashed file with other bytes than its manifest line says.
C24_Witness ==
    /\ last.op = "resolve"
    /\ last.args = << FALSE, TRUE >>
    /\ last.res.kind = "ValidationError"
    /\ LET d == SelectedVersionDir(last.task, last.model_ref)
       IN  d \in DOMAIN registered /\ Incomplete(d) /\ Mismatch(d) /\ Changed(d) # {}

\* The alias documents of the tree f: path -> content.
AliasDocs(f) == [p \in { q \in DOMAIN f : Len(q) = 6 /\ q[5] = "aliases" } |-> f[p]]

\* C25: a register_model that returns ok and was given a non-empty
\* set_alias leaves the alias document of that alias holding the new
\* version, every other alias document as it was, and one more line in the
\* audit log: the event of that promotion, with the reason "register_model"
\* when the caller gave none or an empty one.  A register_model that was
\* given None or "" for set_alias, and one that raises (so at validation,
\* before the manifest is written), changes no alias document and appends
\* nothing to the audit log.
C25_AliasOnRegister ==
    [][ last'.op = "register"
            => LET task == TaskOf(last'.path)
                   model_name == ModelOf(last'.path)
                   doc == alias_path(task, model_name, last'.set_alias)
                   log == LogOf(FS, task, model_name)
                   reason == IF last'.reason \in { None, "" }
                             THEN "register_model" ELSE last'.reason
               IN  IF last'.res.kind = "ok" /\ last'.set_alias \notin { None, "" }
                   THEN /\ doc \in DOMAIN files'
                        /\ files'[doc][1] = "json"
                        /\ files'[doc] =
                             JsonText([task |-> task, model_name |-> model_name,
                                       alias |-> last'.set_alias,
                                       version |-> VersionOf(last'.path),
                                       updated_at |-> JsonLoads(files'[doc]).updated_at,
                                       actor |-> last'.actor, reason |-> reason])
                        /\ \A q \in DOMAIN AliasDocs(files') \ { doc } :
                              q \in DOMAIN files /\ files'[q] = files[q]
                        /\ LogOf(FS', task, model_name) =
                             Append(log,
                                    JsonText([task |-> task, model_name |-> model_name,
                                              alias |-> last'.set_alias,
                                              version |-> VersionOf(last'.path),
                                              actor |-> last'.actor, reason |-> reason,
                                              ts_utc |-> JsonLoads(files'[doc]).updated_at]))
                        /\ validate_package_files(FS', last'.path).kind = "ok"
                   ELSE /\ AliasDocs(files') = AliasDocs(files)
                        /\ LogOf(FS', task, model_name) = log ]_vars

\* A register_model of a second version, with the alias "latest" and no
\* reason, has moved the alias from the first version and added the second
\* line of the log.
C25_Witness ==
    /\ last.op = "register"
    /\ last.res.kind = "ok"
    /\ last.set_alias = "latest"
    /\ last.reason = None
    /\ Cardinality(DOMAIN registered) = 2
    /\ JsonLoads(files[alias_path(TaskOf(last.path), ModelOf(last.path), "latest")]).version
          = VersionOf(last.path)
    /\ LET log == LogOf(FS, TaskOf(last.path), ModelOf(last.path))
       IN  /\ Len(log) = 2
           /\ JsonLoads(log[1]).version # VersionOf(last.path)
           /\ JsonLoads(log[2]).reason = "register_model"

\* The names of the list that are files of directory d in the tree f, the
\* manifest's own name left out, in the order of the list.
Hashable(f, d, include_files) ==
    SelectSeq(include_files, LAMBDA n : n # "sha256sums.txt" /\ Child(d, n) \in DOMAIN f)

\* The manifest lines and the hashes for the names of the sequence: one for
\* each name, in order, with the digest of the bytes of the file in f.
LinesFor(f, d, names) ==
    [i \in 1..Len(names) |-> << << "sha256", f[Child(d, names[i])] >>, names[i] >>]

HashesFor(f, d, names) ==
    [i \in 1..Len(names) |-> << names[i], << "sha256", f[Child(d, names[i])] >> >>]

\* C26: the manifest a successful register_model leaves has one line for
\* each of the six hashed files, in the order of the list, with the digest
\* of the bytes the version directory holds then (for model_meta.json, the
\* document the engine wrote), and no line for sha256sums.txt; the hashes
\* register returns are the mapping read back from the manifest.  A call of
\* write_sha256_manifest writes the lines of the names of its list that are
\* in the directory and are not the manifest's own name, and returns their
\* hashes.
C26_ManifestContents ==
    [][ /\ (last'.op = "register" /\ last'.res.kind = "ok")
            => LET d == last'.path
               IN  /\ ManifestOf(d) \in DOMAIN files'
                   /\ \A i \in 1..Len(HASHED_FILES) : Child(d, HASHED_FILES[i]) \in DOMAIN files'
                   /\ ReadLines(files'[ManifestOf(d)]) = LinesFor(files', d, HASHED_FILES)
                   /\ DictHas(JsonLoads(files'[Child(d, "model_meta.json")]), "created_at")
                   /\ last'.res.hashes = HashesFor(files', d, HASHED_FILES)
                   /\ last'.res.hashes = read_sha256_manifest(FS', ManifestOf(d)).out
        /\ last'.op = "write_manifest"
            => LET d == last'.path
                   names == Hashable(files, d, last'.include_files)
               IN  /\ ManifestOf(d) \in DOMAIN files'
                   /\ ReadLines(files'[ManifestOf(d)]) = LinesFor(files, d, names)
                   /\ last'.res.hashes = HashesFor(files, d, names)
                   /\ last'.res.hashes = read_sha256_manifest(FS', ManifestOf(d)).out ]_vars

\* write_sha256_manifest has been called with the required-file list on a
\* registered version directory that has its manifest and lacks some of
\* the hashed files: it has written the lines of the others.
C26_Witness ==
    /\ last.op = "write_manifest"
    /\ last.include_files = REQUIRED_FILES
    /\ last.path \in DOMAIN registered
    /\ Len(last.res.hashes) \in 1..(Len(HASHED_FILES) - 1)
    /\ ReadLines(files[ManifestOf(last.path)])
          = LinesFor(files, last.path, Hashable(files, last.path, REQUIRED_FILES))
    /\ Len(ReadLines(registered[last.path]["sha256sums.txt"])) = Len(HASHED_FILES)

\* The required files that version directory d lacks.
MissingFrom(d) == { n \in RequiredNames : Child(d, n) \notin DOMAIN files }

\* C27: validate_package_files of a version directory succeeds exactly when
\* all seven required files are in it; when some are missing, whichever
\* they are, it raises ValidationError and the error names each missing
\* file, once, and no other.
C27_IncompletePackageRejected ==
    [][ last'.op = "validate"
            => LET missing == MissingFrom(last'.path)
                   names == last'.res.names
               IN  /\ (last'.res.kind = "ok") <=> (missing = {})
                   /\ missing # {}
                        => /\ last'.res.kind = "ValidationError"
                           /\ { names[i] : i \in 1..Len(names) } = missing
                           /\ Len(names) = Cardinality(missing) ]_vars

\* validate_package_files has raised for a version directory that was
\* registered whole and has lost several files, the first and the last of
\* the list among them, and has named them all.
C27_Witness ==
    /\ last.op = "validate"
    /\ last.res.kind = "ValidationError"
    /\ last.path \in DOMAIN registered
    /\ Cardinality(MissingFrom(last.path)) >= 3
    /\ { "model.pt", "sha256sums.txt" } \subseteq MissingFrom(last.path)
    /\ Len(last.res.names) = Cardinality(MissingFrom(last.path))

\* No call is under way.
Quiescent == \A p \in Procs : procs[p].pc \in { "idle", "done" }

\* The alias document that has the fields of the audit line: the same
\* task, model, alias, version, actor and reason, and the timestamp of the
\* line as its updated_at.
DocumentOfLine(line) ==
    JsonText([task |-> JsonLoads(line).task, model_name |-> JsonLoads(line).model_name,
              alias |-> JsonLoads(line).alias, version |-> JsonLoads(line).version,
              updated_at |-> JsonLoads(line).ts_utc,
              actor |-> JsonLoads(line).actor, reason |-> JsonLoads(line).reason])

\* The lines of the log that are events of the alias.
LinesOfAlias(log, alias) == { i \in 1..Len(log) : JsonLoads(log[i]).alias = alias }

\* Between calls, every alias document is the document of the last audit
\* line of its alias.
AliasAgreesWithLog ==
    Quiescent =>
        \A doc \in AliasFiles :
            LET log == LogOf(FS, doc[2], doc[4])
                events == LinesOfAlias(log, JsonLoads(files[doc]).alias)
            IN  /\ events # {}
                /\ files[doc] = DocumentOfLine(log[CHOOSE i \in events : \A j \in events : j <= i])

\* A step that changes the audit log appends one line to it, and finds the
\* alias document of that line written.
AppendFollowsWrite ==
    \A task \in Tasks, model_name \in Models :
        LET log == LogOf(FS, task, model_name)
            after == LogOf(FS', task, model_name)
            doc == alias_path(task, model_name, JsonLoads(after[Len(after)]).alias)
        IN  after # log
                => /\ after = Append(log, after[Len(after)])
                   /\ doc \in DOMAIN files
                   /\ files[doc] = DocumentOfLine(after[Len(after)])
                   /\ files'[doc] = files[doc]

\* C28: with one call at a time, promote_model has written the alias
\* document when it appends the audit event, and the two hold the same
\* task, model, alias, version, actor, reason and timestamp; so between
\* calls every alias document that exists agrees, in its version and in
\* the other fields, with the last audit line of its alias, and every audit
\* line was appended after its alias had been written to its version.
C28_SequentialAgreement == []AliasAgreesWithLog /\ [][AppendFollowsWrite]_vars

\* Between calls, the alias "latest" holds the second version it was given,
\* and the log holds its two events.
C28_Witness ==
    /\ Quiescent
    /\ \E doc \in AliasFiles :
          LET log == LogOf(FS, doc[2], doc[4])
          IN  /\ doc[6] = "latest.json"
              /\ Len(log) >= 2
              /\ JsonLoads(log[1]).alias = "latest"
              /\ JsonLoads(log[Len(log)]).alias = "latest"
              /\ JsonLoads(log[1]).version # JsonLoads(files[doc]).version
              /\ JsonLoads(log[Len(log)]).version = JsonLoads(files[doc]).version

\* Two calls of promote_model, by the two callers, for the same alias and
\* different versions that exist, have both ended.
BothPromoted ==
    /\ \A p \in Procs : procs[p].op = "promote" /\ procs[p].pc = "done" /\ procs[p].existed
    /\ \A p \in Procs : \A q \in Procs \ { p } :
          procs[p].alias = procs[q].alias /\ procs[p].version # procs[q].version

LeftByFailedRegister(d) == d \in dirs /\ d \notin DOMAIN registered /\ Incomplete(d)

\* C30: promote_model to a version whose directory exists succeeds and
\* appends one audit line, also when the directory was left incomplete by a
\* register_model that failed at validation; resolve_model of an alias that
\* points to such a directory raises ValidationError when it verifies, and
\* returns the incomplete directory when verify and strict_verify are both
\* false.
C30_PromoteChecksExistenceOnly ==
    [][ /\ (last'.op = "promote" /\ last'.path \in dirs)
            => /\ last'.res.kind = "ok"
               /\ Len(LogOf(FS', TaskOf(last'.path), ModelOf(last'.path)))
                    = Len(LogOf(FS, TaskOf(last'.path), ModelOf(last'.path))) + 1
               /\ \E doc \in AliasFiles' :
                     JsonLoads(files'[doc]).version = VersionOf(last'.path)
        /\ ( /\ last'.op = "resolve"
             /\ parse_model_ref(last'.model_ref).err.kind = "ok"
             /\ SelectedAlias(last'.task, last'.model_ref) \in DOMAIN files
             /\ LeftByFailedRegister(SelectedVersionDir(last'.task, last'.model_ref)) )
            => IF last'.verify
               THEN last'.res.kind = "ValidationError"
               ELSE /\ last'.res.kind = "ok"
                    /\ last'.res.path = SelectedVersionDir(last'.task, last'.model_ref) ]_vars

\* An alias was promoted to a version left by a failed register_model, its
\* event is in the log, and resolve_model of the alias without verification
\* has returned the incomplete directory.
C30_Witness ==
    /\ last.op = "resolve"
    /\ ~last.verify
    /\ last.res.kind = "ok"
    /\ SelectedAlias(last.task, last.model_ref) \in DOMAIN files
    /\ LeftByFailedRegister(last.res.path)
    /\ last.res.path = SelectedVersionDir(last.task, last.model_ref)
    /\ \E i \in 1..Len(LogOf(FS, last.task, ModelOf(last.res.path))) :
          JsonLoads(LogOf(FS, last.task, ModelOf(last.res.path))[i]).version
             = VersionOf(last.res.path)

\* A register_model of version directory d is under way: it was called and
\* has not returned, so it has not written the manifest yet (it is called
\* without alias, and the manifest is its last write).
BeingRegistered(d) ==
    \E p \in Procs :
        procs[p].op = "register" /\ procs[p].dst = d /\ procs[p].pc \notin { "idle", "done" }

====
